---- MODULE Spec2Model ----
(***************************************************************************)
(* A model of the rmm broker (avaropoint/rmm): the enrollment store and    *)
(* its HTTP handler, the credential format, and the agent / viewer         *)
(* WebSocket session handlers of cmd/server.                               *)
(*                                                                         *)
(* Go strings are sequences of one-character strings, so that parsing,     *)
(* normalisation and formatting are computed character by character.       *)
(* SHA-256 is the collision-free tagging of its input (hashCode); the      *)
(* HMAC is a short keyed checksum, hex-encoded as the code does.           *)
(***************************************************************************)
EXTENDS Integers, Sequences, FiniteSets, TLC

(***************************************************************************)
(* Characters                                                              *)
(***************************************************************************)

\* The printable characters the model writes out, with their ASCII codes.
CharTable ==
  << <<" ", 32>>, <<"#", 35>>, <<"-", 45>>, <<".", 46>>,
     <<"0", 48>>, <<"1", 49>>, <<"2", 50>>, <<"3", 51>>, <<"4", 52>>,
     <<"5", 53>>, <<"6", 54>>, <<"7", 55>>, <<"8", 56>>, <<"9", 57>>,
     <<":", 58>>,
     <<"A", 65>>, <<"B", 66>>, <<"C", 67>>, <<"D", 68>>, <<"E", 69>>,
     <<"F", 70>>, <<"G", 71>>, <<"H", 72>>, <<"K", 75>>, <<"P", 80>>,
     <<"S", 83>>, <<"X", 88>>,
     <<"a", 97>>, <<"b", 98>>, <<"c", 99>>, <<"d", 100>>, <<"e", 101>>,
     <<"f", 102>>, <<"g", 103>>, <<"h", 104>>, <<"i", 105>>, <<"k", 107>>,
     <<"l", 108>>, <<"n", 110>>, <<"p", 112>>, <<"r", 114>>, <<"s", 115>>,
     <<"t", 116>>, <<"v", 118>>, <<"x", 120>>, <<"z", 122>> >>

\* The character with ASCII code n, or ch when the table has none.
ChrOr(n, ch) ==
  IF \E i \in 1..Len(CharTable) : CharTable[i][2] = n
  THEN CharTable[CHOOSE i \in 1..Len(CharTable) : CharTable[i][2] = n][1]
  ELSE ch

\* The 256 values of a byte of a Go string: the character of the table, or
\* "x" and the value for a byte the table does not list.
ByteChar == [ n \in 0..255 |-> ChrOr(n, "x" \o ToString(n)) ]

Chars == { ByteChar[n] : n \in 0..255 }

\* The value of a byte.
CodeTable == [ ch \in Chars |-> CHOOSE n \in 0..255 : ByteChar[n] = ch ]

Code(ch) == CodeTable[ch]

HexDigits == <<"0", "1", "2", "3", "4", "5", "6", "7",
               "8", "9", "a", "b", "c", "d", "e", "f">>

RECURSIVE Concat(_)
Concat(ss) == IF ss = <<>> THEN <<>> ELSE Head(ss) \o Concat(Tail(ss))

\* strings.ToUpper on one character: a to z lose 32.
UpperTable ==
  [ ch \in Chars |->
      IF Code(ch) >= 97 /\ Code(ch) <= 122 THEN ByteChar[Code(ch) - 32] ELSE ch ]

ToUpperCh(ch) == UpperTable[ch]

ToUpper(s) == [ i \in 1..Len(s) |-> ToUpperCh(s[i]) ]

\* strings.TrimSpace: leading and trailing white space only
RECURSIVE TrimLeft(_)
TrimLeft(s) == IF s # <<>> /\ Head(s) = " " THEN TrimLeft(Tail(s)) ELSE s

RECURSIVE TrimRight(_)
TrimRight(s) ==
  IF s # <<>> /\ s[Len(s)] = " " THEN TrimRight(SubSeq(s, 1, Len(s) - 1)) ELSE s

TrimSpace(s) == TrimRight(TrimLeft(s))

\* strings.ReplaceAll(s, "-", "")
RemoveDashes(s) == SelectSeq(s, LAMBDA ch : ch # "-")

(***************************************************************************)
(* internal/security: hashes, HMAC, credentials, tokens                    *)
(***************************************************************************)

\* hashCode: hex SHA-256 of s, modelled as the collision-free tagging of s.
hashCode(s) == <<"#">> \o s

\* HashEnrollmentCode: normalise, then hash.
HashEnrollmentCode(code) == hashCode(ToUpper(RemoveDashes(TrimSpace(code))))

HashAPIKey(key) == hashCode(key)

CredentialHash(credential) == hashCode(credential)

\* The width of the model's HMAC, in bytes (the code's is 64).
MacLen == 2

\* One byte of the keyed checksum standing for SHA-512: a polynomial
\* checksum of the bytes of s with multiplier m.
RECURSIVE Checksum(_, _, _)
Checksum(s, m, acc) ==
  IF s = <<>> THEN acc
  ELSE Checksum(Tail(s), m, (acc * m + Code(Head(s))) % 256)

\* hmacSHA512(key, message): MacLen bytes; byte i is the checksum of
\* key || message with multiplier 29 + 2i, started at i.
hmacSHA512(key, message) ==
  [ i \in 1..MacLen |-> Checksum(key \o message, 29 + 2 * i, i) ]

\* hmacEqual: length check, then the XOR-OR comparison.
hmacEqual(a, b) ==
  IF Len(a) # Len(b) THEN FALSE
  ELSE \A i \in 1..Len(a) : a[i] = b[i]

\* hex.EncodeToString
HexEncode(bytes) ==
  Concat([ i \in 1..Len(bytes) |->
            <<HexDigits[1 + (bytes[i] \div 16)], HexDigits[1 + (bytes[i] % 16)]>> ])

\* The value of a hex digit, upper or lower case; -1 for any other character.
HexVal(ch) ==
  IF Code(ch) >= 48 /\ Code(ch) <= 57 THEN Code(ch) - 48
  ELSE IF Code(ch) >= 97 /\ Code(ch) <= 102 THEN Code(ch) - 87
  ELSE IF Code(ch) >= 65 /\ Code(ch) <= 70 THEN Code(ch) - 55
  ELSE -1

\* hex.DecodeString: [ok, bytes]
HexDecode(s) ==
  IF Len(s) % 2 # 0 \/ \E i \in 1..Len(s) : HexVal(s[i]) < 0
  THEN [ok |-> FALSE, bytes |-> <<>>]
  ELSE [ok |-> TRUE,
        bytes |-> [ i \in 1..(Len(s) \div 2) |->
                      16 * HexVal(s[2 * i - 1]) + HexVal(s[2 * i]) ]]

AgentCredentialPrefix ==
  <<"a", "g", "e", "n", "t", "-", "c", "r", "e", "d", "e", "n", "t", "i", "a", "l", ":">>

\* newPlatform: the public key and the derived credential key of a seed
\* (Ed25519 and HKDF-SHA-512 modelled as injective taggings of the seed).
newPlatform(seed) ==
  [PublicKey |-> <<"P">> \o seed, credKey |-> <<"K">> \o seed]

Fingerprint(p) == hashCode(p.PublicKey)

\* SignCredential: v1.<agentID>.<hex mac>
SignCredential(p, agentID) ==
  <<"v", "1", ".">> \o agentID \o <<".">>
    \o HexEncode(hmacSHA512(p.credKey, AgentCredentialPrefix \o agentID))

\* The index of the first "." at position >= 4, or 0.
FirstDot(credential) ==
  LET dots == { i \in 4..Len(credential) : credential[i] = "." }
  IN IF dots = {} THEN 0 ELSE CHOOSE i \in dots : \A j \in dots : i <= j

\* The index of the last "." at position >= 4 (Go index >= 3), or 0.
LastDot(credential) ==
  LET dots == { i \in 4..Len(credential) : credential[i] = "." }
  IN IF dots = {} THEN 0 ELSE CHOOSE i \in dots : \A j \in dots : j <= i

\* VerifyCredential: [err, agentID]; err = "" on success.
VerifyCredential(p, credential) ==
  IF Len(credential) < 5 \/ SubSeq(credential, 1, 3) # <<"v", "1", ".">>
  THEN [err |-> "unsupported credential version", agentID |-> <<>>]
  ELSE IF LastDot(credential) <= 4
  THEN [err |-> "malformed credential", agentID |-> <<>>]
  ELSE LET agentID == SubSeq(credential, 4, LastDot(credential) - 1)
           macHex  == SubSeq(credential, LastDot(credential) + 1, Len(credential))
           dec     == HexDecode(macHex)
       IN IF ~dec.ok
          THEN [err |-> "malformed credential MAC", agentID |-> <<>>]
          ELSE IF ~hmacEqual(dec.bytes,
                             hmacSHA512(p.credKey, AgentCredentialPrefix \o agentID))
          THEN [err |-> "invalid credential", agentID |-> <<>>]
          ELSE [err |-> "", agentID |-> agentID]

(***************************************************************************)
(* internal/protocol: opcodes and the frame codec                          *)
(***************************************************************************)

OpText == 1
OpBinary == 2
OpClose == 8
OpPing == 9
OpPong == 10

\* The channel byte of a screen frame.
BinScreen == 1

\* a ^ b on n-bit values
RECURSIVE XorBits(_, _, _)
XorBits(a, b, n) ==
  IF n = 0 THEN 0
  ELSE ((a + b) % 2) + 2 * XorBits(a \div 2, b \div 2, n - 1)

XorByte(a, b) == XorBits(a, b, 8)

\* The n bytes of length, most significant first.
RECURSIVE BigEndian(_, _)
BigEndian(length, n) ==
  IF n = 0 THEN <<>>
  ELSE Append(BigEndian(length \div 256, n - 1), length % 256)

\* binary.BigEndian.Uint16 / Uint64
RECURSIVE FromBigEndian(_)
FromBigEndian(bytes) ==
  IF bytes = <<>> THEN 0
  ELSE 256 * FromBigEndian(SubSeq(bytes, 1, Len(bytes) - 1)) + bytes[Len(bytes)]

\* A length field whose 7-bit form takes a length of 126 as well.
LengthBytesOffByOne(length, maskBit) ==
  IF length <= 126 THEN <<length + maskBit>>
  ELSE IF length < 65536 THEN <<126 + maskBit>> \o BigEndian(length, 2)
  ELSE <<127 + maskBit>> \o BigEndian(length, 8)

\* The length field of a frame header; maskBit is 0 or 128.
LengthBytes(length, maskBit) ==
  IF length < 126 THEN <<length + maskBit>>
  ELSE IF length < 65536 THEN <<126 + maskBit>> \o BigEndian(length, 2)
  ELSE <<127 + maskBit>> \o BigEndian(length, 8)

\* WriteServerFrame: the bytes of an unmasked frame.
WriteServerFrame(opcode, payload) ==
  <<128 + opcode>> \o LengthBytes(Len(payload), 0) \o payload

\* WriteClientFrame: the bytes of a frame masked with maskKey.
WriteClientFrame(opcode, payload, maskKey) ==
  <<128 + opcode>> \o LengthBytes(Len(payload), 128) \o maskKey
    \o [ i \in 1..Len(payload) |-> XorByte(payload[i], maskKey[1 + ((i - 1) % 4)]) ]

FrameErr == [err |-> TRUE, opcode |-> 0, payload |-> <<>>]

\* ReadFrame on the bytes of one frame: [err, opcode, payload].
ReadFrame(bytes) ==
  IF Len(bytes) < 2 THEN FrameErr
  ELSE
    LET opcode == bytes[1] % 16
        masked == bytes[2] >= 128
        len7   == bytes[2] % 128
        extLen == IF len7 = 126 THEN 2 ELSE IF len7 = 127 THEN 8 ELSE 0
        maskAt == 2 + extLen
        dataAt == maskAt + (IF masked THEN 4 ELSE 0)
    IN IF Len(bytes) < maskAt THEN FrameErr
       ELSE
         LET length == IF extLen = 0 THEN len7
                       ELSE FromBigEndian(SubSeq(bytes, 3, maskAt))
         IN IF Len(bytes) < dataAt + length THEN FrameErr
            ELSE [err |-> FALSE, opcode |-> opcode,
                  payload |->
                    [ i \in 1..length |->
                        IF masked
                        THEN XorByte(bytes[dataAt + i], bytes[maskAt + 1 + ((i - 1) % 4)])
                        ELSE bytes[dataAt + i] ]]

(***************************************************************************)
(* State                                                                   *)
(***************************************************************************)

VARIABLES
  now,        \* the clock, in units of fifteen minutes
  tokens,     \* table enrollment_tokens
  agentsTbl,  \* table agents
  apiKeys,    \* table api_keys
  minted,     \* the enrollment codes randomCode has produced so far
  dbConns,    \* the callers holding a connection of the sql.DB pool
  enr,        \* the POST /api/enroll requests: position, locals, response
  agents,     \* Server.agents: agent id -> the LiveAgent (its connection)
  viewers,    \* Server.viewers: agent id -> the viewer connection
  muReaders,  \* the agent sessions holding Server.mu for reading
  ac,         \* the /ws/agent connections: position and locals of handleAgent
  out,        \* the frames the server has written to each agent connection
  vw,         \* the /ws/viewer requests: position and locals of handleViewer
  recv,       \* the frames the server has written to each viewer connection
  app,        \* the call of a function of internal/security, and its result
  rt,         \* the agent process: its main goroutine, Agent, capture tasks
  host        \* the server's data directory and the platform of each start

storeVars == <<now, tokens, agentsTbl, apiKeys, minted, dbConns>>

brokerVars == <<agents, viewers, muReaders, ac, out, vw, recv>>

(***************************************************************************)
(* Bounds and inputs                                                       *)
(***************************************************************************)

\* The number of POST /api/enroll requests.
NReq == 2

Reqs == 1..NReq

\* The platform identity of the running server.
Platform0 == newPlatform(<<"s">>)

\* db.SetMaxOpenConns(1)
MaxOpenConns == 1

\* NULL of used_at, and of a time not yet read
NullTime == -1

\* The expiry of the two token types, in clock units (15 minutes, 7 days).
AttendedTTL == 1
UnattendedTTL == 672

\* The clock stops one unit after an attended token has expired.
MaxTime == AttendedTTL + 1

\* The codes randomCode draws in the model, by token type: eight and
\* twenty-four characters of tokenAlphabet.
CodePool(tokenType) ==
  IF tokenType = "attended"
  THEN { <<"A", "B", "C", "D", "E", "F", "G", "H">> }
  ELSE { <<"K", "P", "S", "X", "K", "P", "S", "X", "K", "P", "S", "X",
           "K", "P", "S", "X", "K", "P", "S", "X", "K", "P", "S", "X">> }

TokenTypes == {"attended", "unattended"}

\* formatCode: a dash every four characters
RECURSIVE formatCode(_)
formatCode(code) ==
  IF Len(code) <= 4 THEN code
  ELSE SubSeq(code, 1, 4) \o <<"-">> \o formatCode(SubSeq(code, 5, Len(code)))

\* The codes a POST /api/enroll request carries in the model.
RequestCodes ==
  { <<>>,
    formatCode(<<"A", "B", "C", "D", "E", "F", "G", "H">>),
    <<"a", "b", "c", "d", " ", "e", "f", "g", "h">>,
    <<"K", "P", "S", "X", "K", "P", "S", "X", "K", "P", "S", "X",
      "K", "P", "S", "X", "K", "P", "S", "X", "K", "P", "S", "X">> }

(***************************************************************************)
(* internal/store: SQLiteStore                                             *)
(***************************************************************************)

\* A pool without a limit (SetMaxOpenConns left out): a connection is
\* always to be had.
ConnFreeUnlimited == TRUE

\* A connection of the pool is free (database/sql blocks the caller otherwise).
ConnFree == Cardinality(dbConns) < MaxOpenConns

\* GenerateEnrollmentToken: the token row for a fresh code
NewToken(id, code, tokenType, clock) ==
  [id |-> id, code_hash |-> hashCode(code), type |-> tokenType,
   created_at |-> clock,
   expires_at |-> clock + (IF tokenType = "attended" THEN AttendedTTL ELSE UnattendedTTL),
   used_at |-> NullTime, used_by |-> <<>>]

\* SELECT ... FROM enrollment_tokens WHERE code_hash = ?
TokenRows(codeHash) == { t \in tokens : t.code_hash = codeHash }

\* The check of used_at left out.
TokenUsedNever(t) == FALSE

\* usedAt.Valid
TokenUsed(t) == t.used_at # NullTime

\* The check of expires_at left out.
TokenExpiredNever(t, clock) == FALSE

\* time.Now().After(t.ExpiresAt)
TokenExpired(t, clock) == clock > t.expires_at

\* An UPDATE that sets used_by and forgets used_at.
ConsumedRowUnmarked(t, nowStr, agentID) == [t EXCEPT !.used_by = agentID]

\* UPDATE enrollment_tokens SET used_at = ?, used_by = ? WHERE id = ?
ConsumedRow(t, nowStr, agentID) ==
  [t EXCEPT !.used_at = nowStr, !.used_by = agentID]

\* A record that stores the hash of the agent id for that of the credential.
AgentRecordOfID(agentID, credential, clock) ==
  [id |-> agentID, credential_hash |-> CredentialHash(agentID),
   enrolled_at |-> clock, last_seen |-> clock]

\* The agent record handleEnroll stores.
AgentRecord(agentID, credential, clock) ==
  [id |-> agentID, credential_hash |-> CredentialHash(credential),
   enrolled_at |-> clock, last_seen |-> clock]

\* CreateAgent fails on the PRIMARY KEY and UNIQUE constraints.
CreateAgentConflict(rec) ==
  \E a \in agentsTbl : a.id = rec.id \/ a.credential_hash = rec.credential_hash

\* An INSERT that stores the row although it reports an error.
CreateAgentStoresAnyway(tbl, rec, failed) == tbl \cup {rec}

\* CreateAgent: the INSERT; a failed one stores nothing.
CreateAgent(tbl, rec, failed) == IF failed THEN tbl ELSE tbl \cup {rec}

\* security.HashAPIKey(req.Code + s.platform.Fingerprint())[:16]
IdLen == 16
EnrollAgentID(code) ==
  LET d == HashAPIKey(code \o Fingerprint(Platform0))
  IN SubSeq(d, 1, IF Len(d) < IdLen THEN Len(d) ELSE IdLen)

(***************************************************************************)
(* cmd/server: POST /api/enroll and the admin's /api/enrollment            *)
(***************************************************************************)

NoResp == [status |-> 0, error |-> "", agent_id |-> <<>>, credential |-> <<>>,
           platform_fingerprint |-> <<>>]

ErrResp(status, msg) == [NoResp EXCEPT !.status = status, !.error = msg]

EnrIdle ==
  [pc |-> "idle", code |-> <<>>,
   nowStr |-> NullTime, rowId |-> 0, outcome |-> "", consumable |-> FALSE,
   resp |-> NoResp]

\* The locals codeHash and agentID of handleEnroll.
ReqCodeHash(r) == HashEnrollmentCode(enr[r].code)
ReqAgentID(r) == EnrollAgentID(enr[r].code)

\* handleEnrollmentTokens, POST: mint a token and store it.  The tokens of
\* the model are minted before the clock first advances.
handleEnrollmentTokens_Post(tokenType) ==
  /\ ConnFree
  /\ now = 0
  /\ \E code \in CodePool(tokenType) \ minted :
       /\ minted' = minted \cup {code}
       /\ tokens' = tokens \cup {NewToken(Cardinality(minted) + 1, code, tokenType, now)}
  /\ UNCHANGED <<now, agentsTbl, apiKeys, dbConns, enr>>
  /\ UNCHANGED <<brokerVars, app, rt, host>>

\* handleEnrollmentTokens, DELETE ?id=
handleEnrollmentTokens_Delete(id) ==
  /\ ConnFree
  /\ \E t \in tokens : t.id = id
  /\ tokens' = { t \in tokens : t.id # id }
  /\ UNCHANGED <<now, agentsTbl, apiKeys, minted, dbConns, enr>>
  /\ UNCHANGED <<brokerVars, app, rt, host>>

\* The clock advances.
Tick ==
  /\ now < MaxTime
  /\ minted # {}
  /\ now' = now + 1
  /\ UNCHANGED <<tokens, agentsTbl, apiKeys, minted, dbConns, enr>>
  /\ UNCHANGED <<brokerVars, app, rt, host>>

\* handleEnroll up to the call of ConsumeEnrollmentToken, and the call's
\* first line (now := time.Now()).  The requests are interchangeable: they
\* arrive in the order of their numbers.
handleEnroll_Decode(r, code) ==
  /\ enr[r].pc = "idle"
  /\ \A q \in Reqs : q < r => enr[q].pc # "idle"
  /\ IF code = <<>>
     THEN enr' = [enr EXCEPT ![r].pc = "done",
                             ![r].resp = ErrResp(400, "enrollment code required")]
     ELSE enr' = [enr EXCEPT
                    ![r].pc = "begin",
                    ![r].code = code,
                    ![r].nowStr = now,
                    ![r].consumable =
                       \E t \in TokenRows(HashEnrollmentCode(code)) :
                          ~TokenUsed(t) /\ ~TokenExpired(t, now)]
  /\ UNCHANGED storeVars
  /\ UNCHANGED <<brokerVars, app, rt, host>>

\* A handleEnroll that checks err and forgets the check of a nil token.
ConsumeFailedErrOnly(outcome) == outcome \notin {"ok", "notfound"}

\* handleEnroll after ConsumeEnrollmentToken: err != nil, or token == nil.
ConsumeFailed(outcome) == outcome # "ok"

\* The 403 of handleEnroll for a failed ConsumeEnrollmentToken.
RejectResp(outcome) ==
  IF outcome = "notfound" THEN ErrResp(403, "invalid enrollment code")
  ELSE ErrResp(403, outcome)

\* s.db.BeginTx takes a connection of the pool (waiting for one), then the
\* SELECT and the two checks.  A failed check returns the error, the
\* deferred Rollback gives the connection back and handleEnroll answers 403.
ConsumeEnrollmentToken_Select(r) ==
  /\ enr[r].pc = "begin"
  /\ ConnFree
  /\ LET rows == TokenRows(ReqCodeHash(r))
         t == CHOOSE t \in rows : TRUE
         outcome == IF rows = {} THEN "notfound"
                    ELSE IF TokenUsed(t) THEN "enrollment token already used"
                    ELSE IF TokenExpired(t, now) THEN "enrollment token expired"
                    ELSE "ok"
     IN IF outcome = "ok"
        THEN /\ enr' = [enr EXCEPT ![r].pc = "update", ![r].rowId = t.id]
             /\ dbConns' = dbConns \cup {r}
        ELSE /\ enr' = IF ConsumeFailed(outcome)
                        THEN [enr EXCEPT ![r].pc = "done", ![r].outcome = outcome,
                                         ![r].nowStr = NullTime,
                                         ![r].resp = RejectResp(outcome)]
                        ELSE [enr EXCEPT ![r].pc = "consumed", ![r].outcome = outcome,
                                         ![r].nowStr = NullTime]
             /\ UNCHANGED dbConns
  /\ UNCHANGED <<now, tokens, agentsTbl, apiKeys, minted>>
  /\ UNCHANGED <<brokerVars, app, rt, host>>

\* The UPDATE of the selected row and tx.Commit; the token is returned.
ConsumeEnrollmentToken_Commit(r) ==
  /\ enr[r].pc = "update"
  /\ tokens' = { IF t.id = enr[r].rowId
                 THEN ConsumedRow(t, enr[r].nowStr, ReqAgentID(r)) ELSE t
                 : t \in tokens }
  /\ dbConns' = dbConns \ {r}
  /\ enr' = [enr EXCEPT ![r].pc = "consumed", ![r].outcome = "ok",
                          ![r].nowStr = NullTime, ![r].rowId = 0]
  /\ UNCHANGED <<now, agentsTbl, apiKeys, minted>>
  /\ UNCHANGED <<brokerVars, app, rt, host>>

\* handleEnroll after a successful consume: sign, CreateAgent, respond.
\* fault is a failure of the INSERT other than a constraint.
handleEnroll_CreateAgent(r, fault) ==
  /\ enr[r].pc = "consumed"
  /\ ~ConsumeFailed(enr[r].outcome)
  /\ ConnFree
  /\ LET credential == SignCredential(Platform0, ReqAgentID(r))
         rec == AgentRecord(ReqAgentID(r), credential, now)
     IN IF fault \/ CreateAgentConflict(rec)
        THEN /\ enr' = [enr EXCEPT ![r].pc = "done",
                                   ![r].resp = ErrResp(500, "enrollment failed")]
             /\ agentsTbl' = CreateAgent(agentsTbl, rec, TRUE)
        ELSE /\ agentsTbl' = CreateAgent(agentsTbl, rec, FALSE)
             /\ enr' = [enr EXCEPT
                          ![r].pc = "done",
                          ![r].resp = [status |-> 200, error |-> "",
                                       agent_id |-> ReqAgentID(r),
                                       credential |-> credential,
                                       platform_fingerprint |-> Fingerprint(Platform0)]]
  /\ UNCHANGED <<now, tokens, apiKeys, minted, dbConns>>
  /\ UNCHANGED <<brokerVars, app, rt, host>>

\* ensureAdminKey: the key minted on an empty database
AdminKey == <<"r", "9">>

(***************************************************************************)
(* cmd/server: the frames of the agent and viewer sessions                 *)
(***************************************************************************)

\* The number of /ws/agent connections and of /ws/viewer requests.
NAgentConn == 2
NViewer == 2

AConns == 1..NAgentConn
Viewers == 1..NViewer

\* The number of requests, of both kinds, the server receives.
MaxSessions == 3

\* No connection (a nil pointer, an absent map entry).
NoConn == 0

\* Each agent connection carries at most MaxBin binary frames; the clients
\* send at most MaxControl pings, display_switched messages and messages to
\* forward, all together.
MaxBin == 2
MaxControl == 1

\* The JSON text of a text frame is carried as the document it parses to:
\* json is false for a text that json.Unmarshal rejects, payloadOk is false
\* for a payload that does not parse; arg is the credential of a register
\* and the id of a registered.
Doc(type, arg) == [json |-> TRUE, type |-> type, payloadOk |-> TRUE, arg |-> arg]

NoDoc == [json |-> FALSE, type |-> "", payloadOk |-> FALSE, arg |-> <<>>]

BadPayload(type) == [json |-> TRUE, type |-> type, payloadOk |-> FALSE, arg |-> <<>>]

\* The masking key of the model's clients (rand.Read in WriteClientFrame).
MaskKey == <<55, 250, 33, 61>>

\* A frame a client writes: the bytes of WriteClientFrame, and the document
\* of its text.
ClientFrame(opcode, payload, doc) ==
  [wire |-> WriteClientFrame(opcode, payload, MaskKey), doc |-> doc]

\* A frame the server writes: the bytes of WriteServerFrame, the document of
\* its text, and whether the agent's mutex was held for the write.
ServerFrame(opcode, payload, doc, locked) ==
  [wire |-> WriteServerFrame(opcode, payload), doc |-> doc, mu |-> locked]

\* A connection that ends without a frame (ReadFrame returns an error).
ReadError == [wire |-> <<>>, doc |-> NoDoc]

\* The enrolled agents of the model, an agent whose record is not in the
\* store, and their credentials.
CodeA == <<"A", "B", "C", "D", "-", "E", "F", "G", "H">>
CodeB == <<"K", "P", "S", "X">>
CodeX == <<"a", "b", "c", "d">>

AgentA == EnrollAgentID(CodeA)
AgentB == EnrollAgentID(CodeB)
AgentX == EnrollAgentID(CodeX)

CredA == SignCredential(Platform0, AgentA)
CredB == SignCredential(Platform0, AgentB)
CredX == SignCredential(Platform0, AgentX)

\* CredA with the last digit of its MAC replaced.
Forged(credential) ==
  [credential EXCEPT ![Len(credential)] =
      IF credential[Len(credential)] = "0" THEN "1" ELSE "0"]

\* credential with the version v2, and credential cut before its MAC.
OtherVersion(credential) == [credential EXCEPT ![2] = "2"]

NoMac(credential) == SubSeq(credential, 1, LastDot(credential) - 1)

\* The k-th screen frame of a connection: the channel byte, then k.
ScreenFrame(k) == <<BinScreen, k>>

\* The first frames an agent connection presents.
FirstFrames ==
  { ClientFrame(OpText, <<>>, Doc("register", CredA)),
    ClientFrame(OpText, <<>>, Doc("register", CredB)),
    ClientFrame(OpText, <<>>, Doc("register", CredX)),
    ClientFrame(OpText, <<>>, Doc("register", Forged(CredA))),
    ClientFrame(OpText, <<>>, Doc("register", OtherVersion(CredA))),
    ClientFrame(OpText, <<>>, Doc("register", NoMac(CredA))),
    ClientFrame(OpText, <<>>, Doc("register", <<>>)),
    ClientFrame(OpText, <<>>, Doc("heartbeat", CredA)),
    ClientFrame(OpText, <<>>, BadPayload("register")),
    ClientFrame(OpText, <<>>, NoDoc),
    ClientFrame(OpBinary, <<BinScreen, 7>>, Doc("register", CredA)),
    ReadError }

\* The frames a registered agent sends.
AgentFrames ==
  { ClientFrame(OpBinary, ScreenFrame(k), NoDoc) : k \in 1..MaxBin } \cup
  { ClientFrame(OpPing, <<5>>, NoDoc),
    ClientFrame(OpText, <<>>, Doc("display_switched", <<>>)),
    ClientFrame(OpText, <<>>, Doc("heartbeat", <<>>)),
    ClientFrame(OpText, <<>>, Doc("screen", <<>>)),
    ClientFrame(OpText, <<>>, NoDoc),
    ClientFrame(OpClose, <<>>, NoDoc),
    ReadError }

\* The JSON bytes of the viewer's messages in the model.
InputPayload == <<105, 110, 112, 117, 116>>
SwitchPayload == <<115, 119>>

\* The messages a viewer sends: opcode, payload and the document of a text.
ViewerMessages ==
  { [opcode |-> OpText, payload |-> InputPayload, doc |-> Doc("input", <<>>)],
    [opcode |-> OpText, payload |-> SwitchPayload, doc |-> Doc("switch_display", <<>>)],
    [opcode |-> OpText, payload |-> <<99>>, doc |-> Doc("start_capture", <<>>)],
    [opcode |-> OpText, payload |-> <<123>>, doc |-> NoDoc],
    [opcode |-> OpBinary, payload |-> <<BinScreen, 9>>, doc |-> NoDoc],
    [opcode |-> OpClose, payload |-> <<>>, doc |-> NoDoc] }

\* The frames a viewer sends.
ViewerFrames ==
  { ClientFrame(m.opcode, m.payload, m.doc) : m \in ViewerMessages }
    \cup { ReadError }

\* s with bit b (0 the lowest) of its i-th byte flipped.
FlipBit(s, i, b) == [s EXCEPT ![i] = ByteChar[XorByte(Code(s[i]), 2 ^ b)]]

\* The registration frame that presents credential.
RegisterFrame(credential) == ClientFrame(OpText, <<>>, Doc("register", credential))

\* The registrations that present an issued credential with one bit flipped.
IssuedCredentials == {CredA, CredB}

TamperedFrames ==
  UNION { { RegisterFrame(FlipBit(cred, i, b)) : i \in 1..Len(cred), b \in 0..7 }
          : cred \in IssuedCredentials }

\* ReadFrame on the frames of the model.
FrameTable ==
  [ frame \in FirstFrames \cup AgentFrames \cup ViewerFrames \cup TamperedFrames |->
      ReadFrame(frame.wire) ]

\* The Upgrade and Sec-WebSocket-Key headers of the requests.
UpgradeRequests ==
  { [Upgrade |-> "websocket", Key |-> <<"k">>],
    [Upgrade |-> "websocket", Key |-> <<>>],
    [Upgrade |-> "", Key |-> <<"k">>],
    [Upgrade |-> "WebSocket", Key |-> <<"k">>] }

\* upgradeWebSocket: whether the handshake goes on to the 101 response.
upgradeWebSocket(h) == h.Upgrade = "websocket" /\ h.Key # <<>>

\* The token and agent query parameters of a viewer request.
ViewerTokens == { <<>>, AdminKey, <<"z", "z">> }
ViewerTargets == { <<>>, AgentA, AgentB, AgentX }

(***************************************************************************)
(* cmd/server: Server.agents, Server.viewers and handleAgent               *)
(***************************************************************************)

\* m[k] = v of a Go map, held as the set of its entries
MapPut(m, k, v) == { e \in m : e.id # k } \cup { [id |-> k, conn |-> v] }

\* delete(m, k)
MapDelete(m, k) == { e \in m : e.id # k }

\* A lookup that takes an entry of the map whatever its key.
MapGetAny(m, k) ==
  IF m = {} THEN NoConn ELSE (CHOOSE e \in m : TRUE).conn

\* v, ok := m[k]; NoConn when absent
MapGet(m, k) ==
  IF \E e \in m : e.id = k THEN (CHOOSE e \in m : e.id = k).conn ELSE NoConn

\* A SELECT without its WHERE clause.
GetAgentByCredentialAny(tbl, credentialHash) == tbl

\* SELECT ... FROM agents WHERE credential_hash = ?
GetAgentByCredential(tbl, credentialHash) ==
  { a \in tbl : a.credential_hash = credentialHash }

\* An UpdateAgentSeen that writes nothing.
UpdateAgentSeenNone(tbl, id, t) == tbl

\* UPDATE agents SET last_seen = ? WHERE id = ?
UpdateAgentSeen(tbl, id, t) ==
  { IF a.id = id THEN [a EXCEPT !.last_seen = t] ELSE a : a \in tbl }

\* A handleAgent that trusts the MAC and does not look the record up.
RegistrationCheckNoStore(frame, tbl) ==
  LET f == FrameTable[frame]
      reject(why) == [ok |-> FALSE, id |-> <<>>, why |-> why]
  IN IF f.err \/ f.opcode # OpText THEN reject("frame")
     ELSE IF ~frame.doc.json \/ frame.doc.type # "register" THEN reject("type")
     ELSE IF ~frame.doc.payloadOk THEN reject("payload")
     ELSE IF frame.doc.arg = <<>> THEN reject("no credential")
     ELSE IF VerifyCredential(Platform0, frame.doc.arg).err # ""
     THEN reject(VerifyCredential(Platform0, frame.doc.arg).err)
     ELSE [ok |-> TRUE, id |-> VerifyCredential(Platform0, frame.doc.arg).agentID,
           why |-> ""]

\* handleAgent from the first ReadFrame to GetAgentByCredential: the agent
\* id to register, or the reason the connection is closed.
RegistrationCheck(frame, tbl) ==
  LET f == FrameTable[frame]
      reject(why) == [ok |-> FALSE, id |-> <<>>, why |-> why]
  IN IF f.err \/ f.opcode # OpText THEN reject("frame")
     ELSE IF ~frame.doc.json \/ frame.doc.type # "register" THEN reject("type")
     ELSE IF ~frame.doc.payloadOk THEN reject("payload")
     ELSE IF frame.doc.arg = <<>> THEN reject("no credential")
     ELSE IF VerifyCredential(Platform0, frame.doc.arg).err # ""
     THEN reject(VerifyCredential(Platform0, frame.doc.arg).err)
     ELSE LET rows == GetAgentByCredential(tbl, CredentialHash(frame.doc.arg))
          IN IF rows = {} THEN reject("not enrolled")
             ELSE [ok |-> TRUE, id |-> (CHOOSE a \in rows : TRUE).id, why |-> ""]

\* A handleAgent that tells an agent that is not enrolled so, in a close frame.
RejectFramesTelling(why) ==
  IF why = "not enrolled"
  THEN <<ServerFrame(OpClose, <<>>, NoDoc, FALSE)>>
  ELSE <<>>

\* The frames handleAgent writes when it rejects a registration, whatever
\* the reason: none (conn.Close() and return).
RejectFrames(why) == <<>>

NoRelay == [opcode |-> 0, payload |-> <<>>, doc |-> NoDoc]

IdleConn ==
  [pc |-> "idle", status |-> 0, first |-> ReadError, id |-> <<>>,
   vc |-> NoConn, relay |-> NoRelay, bin |-> <<>>, sent |-> 0,
   closed |-> FALSE, evictedBy |-> NoConn]

IdleViewer ==
  [pc |-> "idle", status |-> 0, token |-> <<>>, target |-> <<>>, agent |-> NoConn,
   started |-> FALSE, sent |-> 0, closed |-> FALSE, seq |-> 0]

\* The requests received so far.
Arrived ==
  Cardinality({ c \in AConns : ac[c].pc # "idle" })
    + Cardinality({ v \in Viewers : vw[v].pc # "idle" })

RECURSIVE SumSent(_, _)
SumSent(f, n) == IF n = 0 THEN 0 ELSE f[n].sent + SumSent(f, n - 1)

\* The pings, display_switched messages and messages to forward read so far.
ControlSent == SumSent(ac, NAgentConn) + SumSent(vw, NViewer)

\* The variables the sessions leave alone.
enrollOnly == <<tokens, minted, dbConns, enr>>

\* handleAgent: the upgrade, the first frame and the checks of the
\* registration.  The connections are interchangeable: they arrive in the
\* order of their numbers.
handleAgent_Register(c, upgraded, frame) ==
  /\ ac[c].pc = "idle"
  /\ \A q \in AConns : q < c => ac[q].pc # "idle"
  /\ Arrived < MaxSessions
  /\ ConnFree
  /\ LET chk == RegistrationCheck(frame, agentsTbl)
     IN /\ ac' = [ac EXCEPT ![c] =
                    IF ~upgraded THEN [@ EXCEPT !.pc = "done", !.status = 400]
                    ELSE IF chk.ok
                    THEN [@ EXCEPT !.pc = "insert", !.first = frame, !.id = chk.id]
                    ELSE [@ EXCEPT !.pc = "closed", !.first = frame, !.closed = TRUE]]
        /\ out' = [out EXCEPT ![c] =
                     IF upgraded /\ ~chk.ok THEN @ \o RejectFrames(chk.why) ELSE @]
  /\ UNCHANGED <<now, agentsTbl, apiKeys, agents, viewers, muReaders, vw, recv>>
  /\ UNCHANGED <<enrollOnly, app, rt, host>>

\* s.mu.Lock(); s.agents[agent.ID] = agent; s.mu.Unlock()
handleAgent_Insert(c) ==
  /\ ac[c].pc = "insert"
  /\ muReaders = {}
  /\ agents' = MapPut(agents, ac[c].id, c)
  /\ LET prior == MapGet(agents, ac[c].id)
     IN ac' = [q \in AConns |->
                 IF q = c THEN [ac[q] EXCEPT !.pc = "reply", !.first = ReadError]
                 ELSE IF q = prior THEN [ac[q] EXCEPT !.evictedBy = c]
                 ELSE ac[q]]
  /\ UNCHANGED <<now, agentsTbl, apiKeys, viewers, muReaders, out, vw, recv>>
  /\ UNCHANGED <<enrollOnly, app, rt, host>>

\* The registered reply, written without the agent's mutex.
handleAgent_Reply(c) ==
  /\ ac[c].pc = "reply"
  /\ out' = [out EXCEPT ![c] =
               Append(@, ServerFrame(OpText, <<>>, Doc("registered", ac[c].id), FALSE))]
  /\ ac' = [ac EXCEPT ![c].pc = "live"]
  /\ UNCHANGED <<now, agentsTbl, apiKeys, agents, viewers, muReaders, vw, recv>>
  /\ UNCHANGED <<enrollOnly, app, rt, host>>

\* The agent runtime captures after a start_capture; its frames may still
\* be in flight after a stop_capture.
Capturing(c) ==
  \E i \in 1..Len(out[c]) : out[c][i].doc.type = "start_capture"

\* One pass of agentMessageLoop up to the write of a relayed frame: ReadFrame
\* and the switch on the opcode (the end of the loop is
\* handleAgent_Teardown).  A binary frame or a display_switched takes
\* s.mu.RLock and looks the viewer up; the write is the next step.
agentMessageLoop_Read(c, frame) ==
  /\ ac[c].pc = "live"
  /\ LET f == FrameTable[frame]
         vc == MapGet(viewers, ac[c].id)
     IN IF f.err \/ f.opcode = OpClose
        THEN FALSE
        ELSE IF f.opcode = OpPing
        THEN /\ ControlSent < MaxControl
             /\ out' = [out EXCEPT ![c] =
                          Append(@, ServerFrame(OpPong, f.payload, NoDoc, FALSE))]
             /\ ac' = [ac EXCEPT ![c].sent = @ + 1]
             /\ UNCHANGED muReaders
        ELSE IF f.opcode = OpBinary
        THEN /\ Capturing(c)
             /\ Len(ac[c].bin) < MaxBin
             /\ f.payload = ScreenFrame(Len(ac[c].bin) + 1)
             /\ muReaders' = muReaders \cup {c}
             /\ ac' = [ac EXCEPT ![c].pc = "relay", ![c].vc = vc,
                                 ![c].relay = [opcode |-> OpBinary,
                                               payload |-> f.payload,
                                               doc |-> NoDoc],
                                 ![c].bin = Append(@, f.payload)]
             /\ UNCHANGED out
        ELSE IF f.opcode = OpText /\ frame.doc.json
                /\ frame.doc.type = "display_switched"
        THEN /\ ControlSent < MaxControl
             /\ muReaders' = muReaders \cup {c}
             /\ ac' = [ac EXCEPT ![c].pc = "relay", ![c].vc = vc,
                                 ![c].sent = @ + 1,
                                 ![c].relay = [opcode |-> OpText,
                                               payload |-> f.payload,
                                               doc |-> frame.doc]]
             /\ UNCHANGED out
        ELSE UNCHANGED <<ac, out, muReaders>>
  /\ UNCHANGED <<now, agentsTbl, apiKeys, agents, viewers, vw, recv>>
  /\ UNCHANGED <<enrollOnly, app, rt, host>>

\* A relay that strips the channel byte.
RelayBody(data) == SubSeq(data, 2, Len(data))

\* The payload of a relayed frame: data as ReadFrame returned it.
RelayPayload(data) == data

\* WriteServerFrame(vc, opcode, data) while s.mu is read-locked, then
\* s.mu.RUnlock().  src and idx record the connection the frame was read
\* from and its position among that connection's binary frames.
agentMessageLoop_Relay(c) ==
  /\ ac[c].pc = "relay"
  /\ LET vc == ac[c].vc
         r == ac[c].relay
     IN IF vc # NoConn /\ ~vw[vc].closed
        THEN recv' = [recv EXCEPT ![vc] =
                        Append(@, [wire |-> WriteServerFrame(r.opcode, RelayPayload(r.payload)),
                                   doc |-> r.doc, src |-> c,
                                   idx |-> IF r.opcode = OpBinary
                                           THEN Len(ac[c].bin) ELSE 0])]
        ELSE UNCHANGED recv
  /\ muReaders' = muReaders \ {c}
  /\ ac' = [ac EXCEPT ![c].pc = "live", ![c].vc = NoConn, ![c].relay = NoRelay]
  /\ UNCHANGED <<now, agentsTbl, apiKeys, agents, viewers, out, vw>>
  /\ UNCHANGED <<enrollOnly, app, rt, host>>

\* The end of agentMessageLoop (a read error or a close frame) and the
\* deferred function of handleAgent: delete(s.agents, agent.ID) under s.mu,
\* conn.Close(), UpdateAgentSeen.
handleAgent_Teardown(c, frame) ==
  /\ ac[c].pc = "live"
  /\ FrameTable[frame].err \/ FrameTable[frame].opcode = OpClose
  /\ muReaders = {}
  /\ ConnFree
  /\ agents' = MapDelete(agents, ac[c].id)
  /\ agentsTbl' = UpdateAgentSeen(agentsTbl, ac[c].id, now)
  /\ ac' = [ac EXCEPT ![c].pc = "closed", ![c].closed = TRUE]
  /\ UNCHANGED <<now, apiKeys, viewers, muReaders, out, vw, recv>>
  /\ UNCHANGED <<enrollOnly, app, rt, host>>

\* The end of agentMessageLoop as a step of its own: ReadFrame returns an
\* error or a close frame and the loop is left.
agentMessageLoop_Exit(c, frame) ==
  /\ ac[c].pc = "live"
  /\ FrameTable[frame].err \/ FrameTable[frame].opcode = OpClose
  /\ ac' = [ac EXCEPT ![c].pc = "exit"]
  /\ UNCHANGED <<now, agentsTbl, apiKeys, agents, viewers, muReaders, out, vw, recv>>
  /\ UNCHANGED <<enrollOnly, app, rt, host>>

\* The deferred function of handleAgent as a step of its own.
handleAgent_Deferred(c) ==
  /\ ac[c].pc = "exit"
  /\ muReaders = {}
  /\ ConnFree
  /\ agents' = MapDelete(agents, ac[c].id)
  /\ agentsTbl' = UpdateAgentSeen(agentsTbl, ac[c].id, now)
  /\ ac' = [ac EXCEPT ![c].pc = "closed", ![c].closed = TRUE]
  /\ UNCHANGED <<now, apiKeys, viewers, muReaders, out, vw, recv>>
  /\ UNCHANGED <<enrollOnly, app, rt, host>>

(***************************************************************************)
(* cmd/server: handleViewer                                                *)
(***************************************************************************)

\* SELECT ... FROM api_keys WHERE key_hash = ?
APIKeyRows(keyHash) == { k \in apiKeys : k.key_hash = keyHash }

\* A write that never reaches the agent.
WriteToAgentNever(c, frame) == out

\* The write of frame to the agent connection c; it fails on a closed one.
WriteToAgent(c, frame) ==
  IF ac[c].closed THEN out ELSE [out EXCEPT ![c] = Append(@, frame)]

\* A handleViewer that takes any token that is not empty.
AuthStatusAnyKey(token, rows, target, agent) ==
  IF token = <<>> THEN 401
  ELSE IF target = <<>> THEN 400
  ELSE IF agent = NoConn THEN 404
  ELSE 0

\* The status handleViewer answers before the upgrade, 0 when it goes on:
\* rows is the result of VerifyAPIKey, agent that of the lookup in s.agents.
AuthStatus(token, rows, target, agent) ==
  IF token = <<>> THEN 401
  ELSE IF rows = {} THEN 401
  ELSE IF target = <<>> THEN 400
  ELSE IF agent = NoConn THEN 404
  ELSE 0

\* handleViewer up to the upgrade: the token, VerifyAPIKey (which stamps
\* last_used), the agent parameter, the lookup in s.agents and the upgrade.
\* When the upgrade fails the handler returns without writing a response,
\* and net/http answers for it with 200 and no body.
handleViewer_Auth(v, token, target, upgraded) ==
  /\ vw[v].pc = "idle"
  /\ \A q \in Viewers : q < v => vw[q].pc # "idle"
  /\ Arrived < MaxSessions
  /\ ConnFree
  /\ LET rows == APIKeyRows(HashAPIKey(token))
         agent == MapGet(agents, target)
         status == AuthStatus(token, rows, target, agent)
     IN /\ apiKeys' = IF token # <<>> /\ rows # {}
                      THEN { IF k \in rows THEN [k EXCEPT !.last_used = now] ELSE k
                             : k \in apiKeys }
                      ELSE apiKeys
        /\ vw' = [vw EXCEPT ![v] =
                    IF status # 0
                    THEN [@ EXCEPT !.pc = "done", !.status = status, !.token = token]
                    ELSE IF ~upgraded
                    THEN [@ EXCEPT !.pc = "done", !.status = 200, !.token = token,
                                   !.target = target]
                    ELSE [@ EXCEPT !.pc = "attach", !.token = token,
                                   !.target = target, !.agent = agent]]
  /\ UNCHANGED <<now, agentsTbl, agents, viewers, muReaders, ac, out, recv>>
  /\ UNCHANGED <<enrollOnly, app, rt, host>>

\* The viewers that have been put in s.viewers so far.
AttachCount == Cardinality({ q \in Viewers : vw[q].seq > 0 })

\* s.mu.Lock(); s.viewers[agentID] = conn; s.mu.Unlock().  seq records the
\* order of the insertions.
handleViewer_Attach(v) ==
  /\ vw[v].pc = "attach"
  /\ muReaders = {}
  /\ viewers' = MapPut(viewers, vw[v].target, v)
  /\ vw' = [vw EXCEPT ![v].pc = "start", ![v].seq = AttachCount + 1]
  /\ UNCHANGED <<now, agentsTbl, apiKeys, agents, muReaders, ac, out, recv>>
  /\ UNCHANGED <<enrollOnly, app, rt, host>>

\* start_capture, written to agent.conn under agent.mu
handleViewer_Start(v) ==
  /\ vw[v].pc = "start"
  /\ out' = WriteToAgent(vw[v].agent,
                         ServerFrame(OpText, <<>>, Doc("start_capture", <<>>), TRUE))
  /\ vw' = [vw EXCEPT ![v].pc = "loop", ![v].started = TRUE]
  /\ UNCHANGED <<now, agentsTbl, apiKeys, agents, viewers, muReaders, ac, recv>>
  /\ UNCHANGED <<enrollOnly, app, rt, host>>

\* A loop that forwards every message that parses.
ForwardableAnyType(doc) == doc.json

\* json.Unmarshal succeeded and m.Type is input or switch_display
Forwardable(doc) == doc.json /\ doc.type \in {"input", "switch_display"}

\* One pass of viewerInputLoop (its end is handleViewer_Teardown): an input
\* or a switch_display is written to agent.conn under agent.mu, every other
\* frame is dropped.
viewerInputLoop_Read(v, frame) ==
  /\ vw[v].pc = "loop"
  /\ LET f == FrameTable[frame]
     IN IF f.err \/ f.opcode = OpClose
        THEN FALSE
        ELSE IF f.opcode = OpText /\ Forwardable(frame.doc)
        THEN /\ ControlSent < MaxControl
             /\ out' = WriteToAgent(vw[v].agent,
                                    ServerFrame(OpText, f.payload, frame.doc, TRUE))
             /\ vw' = [vw EXCEPT ![v].sent = @ + 1]
        ELSE UNCHANGED <<vw, out>>
  /\ UNCHANGED <<now, agentsTbl, apiKeys, agents, viewers, muReaders, ac, recv>>
  /\ UNCHANGED <<enrollOnly, app, rt, host>>

\* The end of viewerInputLoop (a read error or a close frame) and the
\* deferred function of handleViewer: delete(s.viewers, agentID) under s.mu,
\* stop_capture to agent.conn under agent.mu, conn.Close().
handleViewer_Teardown(v, frame) ==
  /\ vw[v].pc = "loop"
  /\ FrameTable[frame].err \/ FrameTable[frame].opcode = OpClose
  /\ muReaders = {}
  /\ viewers' = MapDelete(viewers, vw[v].target)
  /\ out' = WriteToAgent(vw[v].agent,
                         ServerFrame(OpText, <<>>, Doc("stop_capture", <<>>), TRUE))
  /\ vw' = [vw EXCEPT ![v].pc = "closed", ![v].closed = TRUE]
  /\ UNCHANGED <<now, agentsTbl, apiKeys, agents, muReaders, ac, recv>>
  /\ UNCHANGED <<enrollOnly, app, rt, host>>

\* The end of viewerInputLoop as a step of its own.
viewerInputLoop_Exit(v, frame) ==
  /\ vw[v].pc = "loop"
  /\ FrameTable[frame].err \/ FrameTable[frame].opcode = OpClose
  /\ vw' = [vw EXCEPT ![v].pc = "exit"]
  /\ UNCHANGED <<now, agentsTbl, apiKeys, agents, viewers, muReaders, ac, out, recv>>
  /\ UNCHANGED <<enrollOnly, app, rt, host>>

\* The deferred function of handleViewer as a step of its own.
handleViewer_Deferred(v) ==
  /\ vw[v].pc = "exit"
  /\ muReaders = {}
  /\ viewers' = MapDelete(viewers, vw[v].target)
  /\ out' = WriteToAgent(vw[v].agent,
                         ServerFrame(OpText, <<>>, Doc("stop_capture", <<>>), TRUE))
  /\ vw' = [vw EXCEPT ![v].pc = "closed", ![v].closed = TRUE]
  /\ UNCHANGED <<now, agentsTbl, apiKeys, agents, muReaders, ac, recv>>
  /\ UNCHANGED <<enrollOnly, app, rt, host>>

\* The agent process at the start of main's loop: no connection, no
\* capture, and the zero value of currentDisplay.
IdleRuntime ==
  [main |-> "dial", conn |-> "nil", capturing |-> FALSE, stopCapture |-> 0,
   closedCh |-> {}, tasks |-> <<>>, sent |-> <<>>, currentDisplay |-> 0]

\* A data directory without platform.key, and a server that has not started.
NewHost ==
  [file |-> [exists |-> FALSE, data |-> <<>>], up |-> FALSE, seed |-> <<>>,
   issued |-> {}, yielded |-> {}, starts |-> 0]

\* No function has been called.
NoApp == [fn |-> "", arg |-> <<>>, variant |-> <<>>, out |-> <<>>, err |-> "",
          status |-> 0, next |-> FALSE]

\* NewServer: empty maps, no session
InitSessions ==
  /\ agents = {}
  /\ viewers = {}
  /\ muReaders = {}
  /\ ac = [c \in AConns |-> IdleConn]
  /\ out = [c \in AConns |-> <<>>]
  /\ vw = [v \in Viewers |-> IdleViewer]
  /\ recv = [v \in Viewers |-> <<>>]
  /\ app = NoApp
  /\ rt = IdleRuntime
  /\ host = NewHost

InitStore ==
  /\ now = 0
  /\ tokens = {}
  /\ agentsTbl = {}
  /\ apiKeys = { [key_hash |-> HashAPIKey(AdminKey), last_used |-> NullTime] }
  /\ minted = {}
  /\ dbConns = {}

InitEnroll ==
  /\ InitStore
  /\ enr = [r \in Reqs |-> EnrIdle]
  /\ InitSessions

NextEnroll ==
  \/ \E ty \in TokenTypes : handleEnrollmentTokens_Post(ty)
  \/ \E t \in tokens : handleEnrollmentTokens_Delete(t.id)
  \/ Tick
  \/ \E r \in Reqs, code \in RequestCodes : handleEnroll_Decode(r, code)
  \/ \E r \in Reqs : ConsumeEnrollmentToken_Select(r)
  \/ \E r \in Reqs : ConsumeEnrollmentToken_Commit(r)
  \/ \E r \in Reqs, fault \in BOOLEAN : handleEnroll_CreateAgent(r, fault)

vars == <<now, tokens, agentsTbl, apiKeys, minted, dbConns, enr,
          agents, viewers, muReaders, ac, out, vw, recv, app, rt, host>>

SpecEnroll == InitEnroll /\ [][NextEnroll]_vars

\* The server after the enrollment of AgentA and AgentB at time 0, one
\* clock unit later.
InitBroker ==
  /\ now = 1
  /\ tokens = {}
  /\ agentsTbl = { AgentRecord(AgentA, CredA, 0), AgentRecord(AgentB, CredB, 0) }
  /\ apiKeys = { [key_hash |-> HashAPIKey(AdminKey), last_used |-> NullTime] }
  /\ minted = {}
  /\ dbConns = {}
  /\ enr = [r \in Reqs |-> EnrIdle]
  /\ InitSessions

NextBroker ==
  \/ \E c \in AConns, h \in UpgradeRequests, frame \in FirstFrames :
        handleAgent_Register(c, upgradeWebSocket(h), frame)
  \/ \E c \in AConns : handleAgent_Insert(c)
  \/ \E c \in AConns : handleAgent_Reply(c)
  \/ \E c \in AConns, frame \in AgentFrames : agentMessageLoop_Read(c, frame)
  \/ \E c \in AConns : agentMessageLoop_Relay(c)
  \/ \E c \in AConns, frame \in AgentFrames : handleAgent_Teardown(c, frame)
  \/ \E v \in Viewers, token \in ViewerTokens, target \in ViewerTargets,
        h \in UpgradeRequests :
        handleViewer_Auth(v, token, target, upgradeWebSocket(h))
  \/ \E v \in Viewers : handleViewer_Attach(v)
  \/ \E v \in Viewers : handleViewer_Start(v)
  \/ \E v \in Viewers, frame \in ViewerFrames : viewerInputLoop_Read(v, frame)
  \/ \E v \in Viewers, frame \in ViewerFrames : handleViewer_Teardown(v, frame)

SpecBroker == InitBroker /\ [][NextBroker]_vars

\* The first frames of the sessions whose end is followed: the two enrolled
\* agents' registrations and a connection that sends nothing.
SessionFirstFrames ==
  { ClientFrame(OpText, <<>>, Doc("register", CredA)),
    ClientFrame(OpText, <<>>, Doc("register", CredB)),
    ReadError }

\* The sessions with the end of a read loop and the deferred function of
\* its handler as two steps; the requests are upgraded and the viewers
\* present the admin key and the id of an enrolled agent.
NextBrokerFair ==
  \/ \E c \in AConns, frame \in SessionFirstFrames :
        handleAgent_Register(c, TRUE, frame)
  \/ \E c \in AConns : handleAgent_Insert(c)
  \/ \E c \in AConns : handleAgent_Reply(c)
  \/ \E c \in AConns, frame \in AgentFrames : agentMessageLoop_Read(c, frame)
  \/ \E c \in AConns : agentMessageLoop_Relay(c)
  \/ \E c \in AConns, frame \in AgentFrames : agentMessageLoop_Exit(c, frame)
  \/ \E c \in AConns : handleAgent_Deferred(c)
  \/ \E v \in Viewers, target \in {AgentA, AgentB} :
        handleViewer_Auth(v, AdminKey, target, TRUE)
  \/ \E v \in Viewers : handleViewer_Attach(v)
  \/ \E v \in Viewers : handleViewer_Start(v)
  \/ \E v \in Viewers, frame \in ViewerFrames : viewerInputLoop_Read(v, frame)
  \/ \E v \in Viewers, frame \in ViewerFrames : viewerInputLoop_Exit(v, frame)
  \/ \E v \in Viewers : handleViewer_Deferred(v)

\* Each handler is a goroutine the scheduler keeps running: a handler that
\* can take a step of its own (one that waits for no frame of its client)
\* takes it.
HandlerFairness ==
  /\ \A c \in AConns :
       WF_vars(handleAgent_Insert(c) \/ handleAgent_Reply(c)
                 \/ agentMessageLoop_Relay(c) \/ handleAgent_Deferred(c))
  /\ \A v \in Viewers :
       WF_vars(handleViewer_Attach(v) \/ handleViewer_Start(v)
                 \/ handleViewer_Deferred(v))

SpecBrokerFair == InitBroker /\ [][NextBrokerFair]_vars /\ HandlerFairness

\* SQLiteStore.DeleteAgent: DELETE FROM agents WHERE id = ?
DeleteAgent(id) ==
  /\ ConnFree
  /\ \E a \in agentsTbl : a.id = id
  /\ agentsTbl' = { a \in agentsTbl : a.id # id }
  /\ UNCHANGED <<now, tokens, apiKeys, minted, dbConns, enr>>
  /\ UNCHANGED <<brokerVars, app, rt, host>>

\* The agent sessions beside an admin who deletes agent records.
NextRevoke ==
  \/ \E c \in AConns, h \in UpgradeRequests, frame \in FirstFrames :
        handleAgent_Register(c, upgradeWebSocket(h), frame)
  \/ \E c \in AConns : handleAgent_Insert(c)
  \/ \E c \in AConns : handleAgent_Reply(c)
  \/ \E c \in AConns, frame \in AgentFrames : handleAgent_Teardown(c, frame)
  \/ \E id \in {AgentA, AgentB} : DeleteAgent(id)

SpecRevoke == InitBroker /\ [][NextRevoke]_vars

(***************************************************************************)
(* internal/security: the functions called on their own                    *)
(***************************************************************************)

\* The agent ids given to SignCredential: the strings of at most MaxIdLen
\* characters of IdAlphabet.
MaxIdLen == 3

IdAlphabet == {"a", "7", "."}

AgentIDs == UNION { [1..n -> IdAlphabet] : n \in 0..MaxIdLen }

\* strings.ToLower on one character (not a function of the server: the
\* agent's operator types the code in either case)
ToLower(s) ==
  [ i \in 1..Len(s) |->
      IF Code(s[i]) >= 65 /\ Code(s[i]) <= 90 THEN ByteChar[Code(s[i]) + 32] ELSE s[i] ]

\* s with ch inserted after its first k characters
InsertAt(s, k, ch) == SubSeq(s, 1, k) \o <<ch>> \o SubSeq(s, k + 1, Len(s))

\* The ways a code is typed: in either case, with a dash or a blank added
\* at any position.
Variants(c) ==
  {c, ToLower(c)} \cup
  { InsertAt(x, k, ch) : x \in {c, ToLower(c)}, k \in 0..Len(c), ch \in {" ", "-"} }

\* The raw codes whose variants are hashed.
RawCodes == CodePool("attended")

Bearer == <<"B", "e", "a", "r", "e", "r", " ">>

\* The Authorization headers of the requests to a wrapped handler.
AuthHeaders ==
  { <<>>, Bearer \o AdminKey, Bearer \o <<"z", "z">>, Bearer, AdminKey,
    <<"b", "e", "a", "r", "e", "r", " ">> \o AdminKey }

\* strings.HasPrefix
HasPrefix(s, prefix) ==
  Len(s) >= Len(prefix) /\ SubSeq(s, 1, Len(prefix)) = prefix

\* An extractKey that reads the header only.
extractKeyHeaderOnly(auth, token) ==
  IF auth # <<>> /\ HasPrefix(auth, Bearer)
  THEN SubSeq(auth, Len(Bearer) + 1, Len(auth))
  ELSE <<>>

\* extractKey: the Bearer header, else the token query parameter
extractKey(auth, token) ==
  IF auth # <<>> /\ HasPrefix(auth, Bearer)
  THEN SubSeq(auth, Len(Bearer) + 1, Len(auth))
  ELSE token

securityOnly == <<now, tokens, agentsTbl, minted, dbConns, enr, rt, host>>

SignCredential_Call(a) ==
  /\ app.fn = ""
  /\ app' = [NoApp EXCEPT !.fn = "SignCredential", !.arg = a,
                            !.out = SignCredential(Platform0, a)]
  /\ UNCHANGED <<securityOnly, apiKeys, brokerVars>>

\* VerifyCredential on the credential SignCredential returned
VerifyCredential_Call ==
  /\ app.fn = "SignCredential"
  /\ LET r == VerifyCredential(Platform0, app.out)
     IN app' = [NoApp EXCEPT !.fn = "VerifyCredential", !.arg = app.arg,
                               !.variant = app.out, !.out = r.agentID,
                               !.err = r.err]
  /\ UNCHANGED <<securityOnly, apiKeys, brokerVars>>

\* The checks of handleAgent on a registration that presents the issued
\* credential cred with bit b of byte i flipped: err is the error of
\* VerifyCredential, out the agent id the connection is registered under.
TamperedRegister_Call(cred, i, b) ==
  /\ app.fn = ""
  /\ i <= Len(cred)
  /\ LET presented == FlipBit(cred, i, b)
         chk == RegistrationCheck(RegisterFrame(presented), agentsTbl)
     IN app' = [NoApp EXCEPT !.fn = "register", !.arg = cred,
                               !.variant = presented,
                               !.err = VerifyCredential(Platform0, presented).err,
                               !.out = IF chk.ok THEN chk.id ELSE <<>>,
                               !.next = chk.ok]
  /\ UNCHANGED <<securityOnly, apiKeys, brokerVars>>

\* HashEnrollmentCode on the variant v of the raw code c
HashEnrollmentCode_Call(c, v) ==
  /\ app.fn = ""
  /\ app' = [NoApp EXCEPT !.fn = "HashEnrollmentCode", !.arg = c, !.variant = v,
                            !.out = HashEnrollmentCode(v)]
  /\ UNCHANGED <<securityOnly, apiKeys, brokerVars>>

\* The handler AuthMiddleware.Wrap returns, on a request with Authorization
\* header auth and query parameter token: 401 without a key or with a key
\* VerifyAPIKey does not find (VerifyAPIKey stamps last_used on the row it
\* finds), else the call of the wrapped handler (next).
AuthMiddleware_Wrap(auth, token) ==
  /\ app.fn = ""
  /\ LET key == extractKey(auth, token)
         rows == APIKeyRows(HashAPIKey(key))
     IN IF key = <<>>
        THEN /\ app' = [NoApp EXCEPT !.fn = "Wrap", !.arg = auth, !.variant = token,
                                      !.out = key, !.status = 401,
                                      !.err = "authentication required"]
             /\ UNCHANGED apiKeys
        ELSE /\ ConnFree
             /\ apiKeys' = { IF k \in rows THEN [k EXCEPT !.last_used = now] ELSE k
                             : k \in apiKeys }
             /\ app' = IF rows = {}
                       THEN [NoApp EXCEPT !.fn = "Wrap", !.arg = auth,
                                          !.variant = token, !.out = key,
                                          !.status = 401, !.err = "invalid API key"]
                       ELSE [NoApp EXCEPT !.fn = "Wrap", !.arg = auth,
                                          !.variant = token, !.out = key,
                                          !.next = TRUE]
  /\ UNCHANGED <<securityOnly, brokerVars>>

\* The server with its two enrolled agents and its admin key.
InitSecurity == InitBroker

NextSecurity ==
  \/ \E a \in AgentIDs : SignCredential_Call(a)
  \/ VerifyCredential_Call
  \/ \E cred \in IssuedCredentials, i \in 1..Len(CredA) + Len(CredB), b \in 0..7 :
        TamperedRegister_Call(cred, i, b)
  \/ \E c \in RawCodes : \E v \in Variants(c) : HashEnrollmentCode_Call(c, v)
  \/ \E auth \in AuthHeaders, token \in ViewerTokens : AuthMiddleware_Wrap(auth, token)

SpecSecurity == InitSecurity /\ [][NextSecurity]_vars

(***************************************************************************)
(* internal/protocol: the frame codec called on its own                    *)
(***************************************************************************)

\* The opcodes of a frame header: the values of its four opcode bits.
Opcodes == 0..15

\* The payload lengths written: the ends of the 7-bit form and the start of
\* the 16-bit form, then the end of the 16-bit form and the start of the
\* 64-bit form.
SmallLengths == {0, 1, 125, 126, 127}
LargeLengths == {65535, 65536}

\* The payload of n bytes that starts at byte first and steps by 7.
PayloadOf(n, first) == [i \in 1..n |-> (first + 7 * (i - 1)) % 256]

\* The frames written, as pairs of opcode and payload: every opcode with
\* the small payloads, and binary frames (the screen captures) with the
\* large ones.
FrameInputs ==
  { <<opcode, PayloadOf(n, first)>> :
      opcode \in Opcodes, n \in SmallLengths, first \in {0, 131} }
    \cup { <<OpBinary, PayloadOf(n, 131)>> : n \in LargeLengths }

\* The masking keys rand.Read gives WriteClientFrame in the model.
MaskKeys == { MaskKey, <<0, 0, 0, 0>> }

\* WriteServerFrame(conn, opcode, payload): out is what conn receives.
WriteServerFrame_Call(opcode, payload) ==
  /\ app.fn = ""
  /\ app' = [NoApp EXCEPT !.fn = "WriteServerFrame", !.arg = payload,
                            !.status = opcode,
                            !.out = WriteServerFrame(opcode, payload)]
  /\ UNCHANGED <<securityOnly, apiKeys, brokerVars>>

\* WriteClientFrame(conn, opcode, payload) with the key rand.Read drew.
WriteClientFrame_Call(opcode, payload, maskKey) ==
  /\ app.fn = ""
  /\ app' = [NoApp EXCEPT !.fn = "WriteClientFrame", !.arg = payload,
                            !.status = opcode, !.variant = maskKey,
                            !.out = WriteClientFrame(opcode, payload, maskKey)]
  /\ UNCHANGED <<securityOnly, apiKeys, brokerVars>>

\* ReadFrame on the bytes the writer produced: out is the payload returned,
\* status the opcode, err the error; arg keeps the payload written and
\* variant the writer, the opcode it was given and its masking key.
ReadFrame_Call ==
  /\ app.fn \in {"WriteServerFrame", "WriteClientFrame"}
  /\ LET f == ReadFrame(app.out)
     IN app' = [NoApp EXCEPT !.fn = "ReadFrame", !.arg = app.arg,
                               !.variant = <<app.fn, app.status>> \o app.variant,
                               !.out = f.payload, !.status = f.opcode,
                               !.err = IF f.err THEN "read" ELSE ""]
  /\ UNCHANGED <<securityOnly, apiKeys, brokerVars>>

NextCodec ==
  \/ \E in \in FrameInputs : WriteServerFrame_Call(in[1], in[2])
  \/ \E in \in FrameInputs, maskKey \in MaskKeys :
        WriteClientFrame_Call(in[1], in[2], maskKey)
  \/ ReadFrame_Call

SpecCodec == InitBroker /\ [][NextCodec]_vars

(***************************************************************************)
(* cmd/agent: main, Agent.run and the capture task                         *)
(***************************************************************************)

\* The capture goroutines the agent process starts, and the frames it writes
\* on one connection.
MaxTasks == 2
MaxShots == 2

\* getDisplayCount
DisplayCount == 2

\* The JPEG buffers captureScreen returns.
Jpegs == { <<255, 216, 255>>, <<255, 216>> }

\* base64.StdEncoding.EncodeToString, as the bytes of its text
RECURSIVE StdEncoding(_)
StdEncoding(b) ==
  LET digit(n) == IF n < 26 THEN 65 + n
                  ELSE IF n < 52 THEN 71 + n
                  ELSE IF n < 62 THEN n - 4
                  ELSE IF n = 62 THEN 43 ELSE 47
  IN IF Len(b) = 0 THEN <<>>
     ELSE IF Len(b) = 1
     THEN <<digit(b[1] \div 4), digit((b[1] % 4) * 16), 61, 61>>
     ELSE IF Len(b) = 2
     THEN <<digit(b[1] \div 4), digit((b[1] % 4) * 16 + b[2] \div 16),
            digit((b[2] % 16) * 4), 61>>
     ELSE <<digit(b[1] \div 4), digit((b[1] % 4) * 16 + b[2] \div 16),
            digit((b[2] % 16) * 4 + b[3] \div 64), digit(b[3] % 64)>>
            \o StdEncoding(SubSeq(b, 4, Len(b)))

\* The frame Agent.sendMessage writes for a message of the given type: a
\* masked text frame; by names the goroutine that sends it.
sendMessage(type, payload, by) ==
  [wire |-> WriteClientFrame(OpText, payload, MaskKey), doc |-> Doc(type, <<>>),
   by |-> by]

\* The frames the server sends to a registered agent, a close frame and the
\* end of the connection.  The argument of a switch_display is its display.
AgentInbox ==
  { ServerFrame(OpText, <<>>, Doc("start_capture", <<>>), TRUE),
    ServerFrame(OpText, <<>>, Doc("stop_capture", <<>>), TRUE),
    ServerFrame(OpText, <<>>, Doc("input", <<>>), TRUE),
    ServerFrame(OpText, <<>>, Doc("switch_display", <<0>>), TRUE),
    ServerFrame(OpText, <<>>, Doc("switch_display", <<1>>), TRUE),
    ServerFrame(OpText, <<>>, Doc("switch_display", <<2>>), TRUE),
    ServerFrame(OpText, <<>>, Doc("switch_display", <<3>>), TRUE),
    ServerFrame(OpText, <<>>, BadPayload("switch_display"), TRUE),
    ServerFrame(OpText, <<>>, NoDoc, TRUE),
    ServerFrame(OpPing, <<5>>, NoDoc, FALSE),
    ServerFrame(OpClose, <<>>, NoDoc, FALSE),
    [wire |-> <<>>, doc |-> NoDoc, mu |-> FALSE] }

\* The answers to a registration: registered, another message, a frame that
\* is no text, and the end of the connection.
AgentReplies ==
  { ServerFrame(OpText, <<>>, Doc("registered", AgentA), FALSE),
    ServerFrame(OpText, <<>>, Doc("error", <<>>), FALSE),
    ServerFrame(OpBinary, <<BinScreen>>, NoDoc, FALSE),
    [wire |-> <<>>, doc |-> NoDoc, mu |-> FALSE] }

\* The write of frame on a.conn by a goroutine of the agent: on a nil
\* a.conn the call of conn.Write panics and the process ends; on a closed
\* connection the write fails and the error is dropped.
WriteOnConn(r, frame) ==
  IF r.conn = "nil" THEN [r EXCEPT !.main = "dead"]
  ELSE IF r.conn = "open" THEN [r EXCEPT !.sent = Append(@, frame)]
  ELSE r

\* The write fits the frames kept of one connection.
CanWrite == rt.conn # "open" \/ Len(rt.sent) < MaxShots

\* run returns: the deferred a.conn.Close(), then main logs and sleeps.
RunReturns(r) == [r EXCEPT !.main = "sleep", !.conn = "closed"]

\* The variables the agent process leaves alone.
serverVars == <<storeVars, enr, brokerVars, app, host>>

\* a.conn, a.reader, err = dialWebSocket(a.serverURL): on an error a.conn is
\* assigned nil and run returns.
dialWebSocket(ok) ==
  /\ rt.main = "dial"
  /\ rt' = IF ok
           THEN [rt EXCEPT !.main = "register", !.conn = "open", !.sent = <<>>]
           ELSE [rt EXCEPT !.main = "sleep", !.conn = "nil"]
  /\ UNCHANGED serverVars

\* Agent.register: the register message; run returns when its write fails.
register(ok) ==
  /\ rt.main = "register"
  /\ rt' = IF ok
           THEN [WriteOnConn(rt, sendMessage("register", <<>>, "run"))
                   EXCEPT !.main = "confirm", !.currentDisplay = 1]
           ELSE [RunReturns(rt) EXCEPT !.currentDisplay = 1]
  /\ UNCHANGED serverVars

\* The frame read after the registration: run goes on to its message loop
\* on a text frame of type registered and returns on anything else.
run_Confirm(frame) ==
  /\ rt.main = "confirm"
  /\ LET f == ReadFrame(frame.wire)
     IN rt' = IF ~f.err /\ f.opcode = OpText /\ frame.doc.json
                 /\ frame.doc.type = "registered"
              THEN [rt EXCEPT !.main = "loop"]
              ELSE RunReturns(rt)
  /\ UNCHANGED serverVars

\* The heartbeat goroutine of run: a heartbeat on each tick of its ticker
\* until run returns.
run_Heartbeat ==
  /\ rt.main = "loop"
  /\ CanWrite
  /\ rt' = WriteOnConn(rt, sendMessage("heartbeat", <<>>, "heartbeat"))
  /\ UNCHANGED serverVars

\* Agent.startCapture: nothing when a.capturing is set; else the flag, a new
\* stopCapture channel and a new capture goroutine.
startCapture(r) ==
  IF r.capturing THEN r
  ELSE [r EXCEPT !.capturing = TRUE,
                 !.stopCapture = Len(r.tasks) + 1,
                 !.tasks = Append(@, [pc |-> "select", ch |-> Len(r.tasks) + 1])]

\* Agent.stopCaptureLoop: close(a.stopCapture) and the flag cleared.
stopCaptureLoop(r) ==
  IF r.capturing /\ r.stopCapture # 0
  THEN [r EXCEPT !.closedCh = @ \cup {r.stopCapture}, !.capturing = FALSE]
  ELSE r

\* The display a switch_display asks for: the field display of its payload.
RequestedDisplay(doc) == doc.arg[1]

\* A handleSwitchDisplay without the check of the display number.
handleSwitchDisplayUnchecked(r, doc) ==
  IF ~doc.payloadOk THEN r
  ELSE WriteOnConn([r EXCEPT !.currentDisplay = RequestedDisplay(doc)],
                   sendMessage("display_switched", <<RequestedDisplay(doc)>>, "run"))

\* Agent.handleSwitchDisplay: nothing for a payload that does not parse; a
\* display within 1..getDisplayCount() becomes the current one and is echoed
\* in a display_switched.
handleSwitchDisplay(r, doc) ==
  IF ~doc.payloadOk THEN r
  ELSE IF RequestedDisplay(doc) < 1 \/ RequestedDisplay(doc) > DisplayCount THEN r
  ELSE WriteOnConn([r EXCEPT !.currentDisplay = RequestedDisplay(doc)],
                   sendMessage("display_switched", <<RequestedDisplay(doc)>>, "run"))

\* One pass of the message loop of run: ReadFrame and the dispatch.
run_Dispatch(frame) ==
  /\ rt.main = "loop"
  /\ LET f == ReadFrame(frame.wire)
     IN IF f.err \/ f.opcode = OpClose
        THEN rt' = RunReturns(rt)
        ELSE IF f.opcode = OpPing
        THEN /\ CanWrite
             /\ rt' = WriteOnConn(rt, [wire |-> WriteClientFrame(OpPong, f.payload, MaskKey),
                                       doc |-> NoDoc, by |-> "run"])
        ELSE IF f.opcode = OpText /\ frame.doc.json
        THEN IF frame.doc.type = "start_capture"
             THEN /\ rt.capturing \/ Len(rt.tasks) < MaxTasks
                  /\ rt' = startCapture(rt)
             ELSE IF frame.doc.type = "stop_capture"
             THEN rt' = stopCaptureLoop(rt)
             ELSE IF frame.doc.type = "switch_display"
             THEN /\ CanWrite
                  /\ rt' = handleSwitchDisplay(rt, frame.doc)
             ELSE rt' = rt
        ELSE rt' = rt
  /\ UNCHANGED serverVars

\* The select of capture goroutine t.  The goroutine reads the field
\* a.stopCapture without the mutex while startCapture writes it: it sees the
\* channel it saw last or the current one (fresh).  A closed channel ends
\* the goroutine; a tick of the ticker sends it into captureScreen.
capture_Select(t, fresh, tick) ==
  /\ rt.main # "dead"
  /\ t \in 1..Len(rt.tasks)
  /\ rt.tasks[t].pc = "select"
  /\ LET ch == IF fresh THEN rt.stopCapture ELSE rt.tasks[t].ch
     IN IF tick
        THEN rt' = [rt EXCEPT !.tasks[t] = [pc |-> "capture", ch |-> ch]]
        ELSE /\ ch \in rt.closedCh
             /\ rt' = [rt EXCEPT !.tasks[t] = [pc |-> "done", ch |-> ch]]
  /\ UNCHANGED serverVars

\* captureScreen returns in goroutine t: on an error the loop goes on, else
\* the buffer is sent, base64 in a text message of type screen.
capture_Send(t, shot) ==
  /\ rt.main # "dead"
  /\ t \in 1..Len(rt.tasks)
  /\ rt.tasks[t].pc = "capture"
  /\ shot # <<>> => CanWrite
  /\ rt' = [(IF shot = <<>> THEN rt
             ELSE WriteOnConn(rt, sendMessage("screen", StdEncoding(shot), "capture")))
              EXCEPT !.tasks[t].pc = "select"]
  /\ UNCHANGED serverVars

\* main: time.Sleep(reconnectDelay) after run has returned, then run again
main_Sleep ==
  /\ rt.main = "sleep"
  /\ rt' = [rt EXCEPT !.main = "dial"]
  /\ UNCHANGED serverVars

NextAgent ==
  \/ \E ok \in BOOLEAN : dialWebSocket(ok)
  \/ \E ok \in BOOLEAN : register(ok)
  \/ \E frame \in AgentReplies : run_Confirm(frame)
  \/ run_Heartbeat
  \/ \E frame \in AgentInbox : run_Dispatch(frame)
  \/ \E t \in 1..MaxTasks, fresh \in BOOLEAN, tick \in BOOLEAN :
        capture_Select(t, fresh, tick)
  \/ \E t \in 1..MaxTasks, shot \in Jpegs \cup {<<>>} : capture_Send(t, shot)
  \/ main_Sleep

\* main is a goroutine the scheduler keeps running: its sleep ends and its
\* dial returns.
AgentFairness ==
  /\ WF_vars(main_Sleep)
  /\ WF_vars(\E ok \in BOOLEAN : dialWebSocket(ok))

\* The agent process beside the server of InitBroker.
SpecAgent == InitBroker /\ [][NextAgent]_vars /\ AgentFairness

(***************************************************************************)
(* internal/security: LoadOrCreatePlatform over the starts of the server   *)
(***************************************************************************)

\* The starts of the server on one data directory.
MaxStarts == 4

\* ed25519.SeedSize, and the seeds rand.Reader yields.
SeedSize == 1

Seeds == [1..SeedSize -> {"s", "t"}]

\* pem.Encode of a block: its BEGIN line, its bytes and its END line.
pemEncode(type, bytes) == <<"BEGIN " \o type>> \o bytes \o <<"END " \o type>>

\* pem.Decode: the first block of data, none when its BEGIN or END line is
\* missing.
pemDecode(data) ==
  IF /\ Len(data) >= 2
     /\ \E type \in {"PRIVATE KEY", "CERTIFICATE"} :
          data[1] = "BEGIN " \o type /\ data[Len(data)] = "END " \o type
  THEN [ok |-> TRUE,
        Type |-> CHOOSE type \in {"PRIVATE KEY", "CERTIFICATE"} :
                   data[1] = "BEGIN " \o type,
        Bytes |-> SubSeq(data, 2, Len(data) - 1)]
  ELSE [ok |-> FALSE, Type |-> "", Bytes |-> <<>>]

\* fileExists: os.Stat succeeds
fileExists(file) == file.exists

\* loadPlatformKey: the seed of the file, or an error.
loadPlatformKey(file) ==
  LET block == pemDecode(file.data)
  IN IF ~block.ok \/ block.Type # "PRIVATE KEY"
     THEN [err |-> "invalid platform key file", seed |-> <<>>, file |-> file]
     ELSE IF Len(block.Bytes) # SeedSize
     THEN [err |-> "invalid platform key size", seed |-> <<>>, file |-> file]
     ELSE [err |-> "", seed |-> block.Bytes, file |-> file]

\* generatePlatformKey with the seed rand.Reader yields: os.OpenFile creates
\* and truncates the file, pem.Encode writes it.  fault is the step that
\* fails: "open", "encode" (the file is left with the bytes written so far,
\* here its BEGIN line) or none.
generatePlatformKey(file, seed, fault) ==
  IF fault = "open"
  THEN [err |-> "open", seed |-> <<>>, file |-> file]
  ELSE IF fault = "encode"
  THEN [err |-> "encode", seed |-> <<>>,
        file |-> [exists |-> TRUE, data |-> <<"BEGIN PRIVATE KEY">>]]
  ELSE [err |-> "", seed |-> seed,
        file |-> [exists |-> TRUE, data |-> pemEncode("PRIVATE KEY", seed)]]

\* A server that makes a new key at every start.
LoadOrCreatePlatformAnew(file, seed, fault) ==
  generatePlatformKey(file, seed, fault)

\* LoadOrCreatePlatform: [err, seed, file]; the Platform is newPlatform(seed)
LoadOrCreatePlatform(file, seed, fault) ==
  IF fileExists(file) THEN loadPlatformKey(file)
  ELSE generatePlatformKey(file, seed, fault)

\* The variables the starts of the server leave alone.
sessionVars == <<storeVars, enr, brokerVars, app, rt>>

\* main up to the platform identity: LoadOrCreatePlatform; on an error
\* log.Fatalf ends the process.  yielded collects the platforms of the
\* starts that succeeded.
main_LoadOrCreatePlatform(seed, fault) ==
  /\ ~host.up
  /\ host.starts < MaxStarts
  /\ LET r == LoadOrCreatePlatform(host.file, seed, fault)
     IN host' = IF r.err # ""
                THEN [host EXCEPT !.file = r.file, !.starts = @ + 1]
                ELSE [host EXCEPT !.file = r.file, !.starts = @ + 1,
                                  !.up = TRUE, !.seed = r.seed,
                                  !.yielded = @ \cup {newPlatform(r.seed)}]
  /\ UNCHANGED sessionVars

\* handleEnroll's s.platform.SignCredential(agentID) in the running server;
\* run is the start that signed.
handleEnroll_SignCredential(agentID) ==
  /\ host.up
  /\ host' = [host EXCEPT !.issued =
                @ \cup {[credential |-> SignCredential(newPlatform(host.seed), agentID),
                         agentID |-> agentID, run |-> host.starts]}]
  /\ UNCHANGED sessionVars

\* The server process ends.
main_Exit ==
  /\ host.up
  /\ host' = [host EXCEPT !.up = FALSE, !.seed = <<>>]
  /\ UNCHANGED sessionVars

NextPlatform ==
  \/ \E seed \in Seeds, fault \in {"", "open", "encode"} :
        main_LoadOrCreatePlatform(seed, fault)
  \/ \E agentID \in {AgentA, AgentB} : handleEnroll_SignCredential(agentID)
  \/ main_Exit

\* The starts and stops of the server on the data directory of NewHost.
SpecPlatform == InitBroker /\ [][NextPlatform]_vars

(***************************************************************************)
(* Enrollment: the claims                                                  *)
(***************************************************************************)

\* The call of ConsumeEnrollmentToken of request r has returned.
Returned(r) == enr[r].pc \in {"consumed", "done"}

\* The calls of ConsumeEnrollmentToken made with code hash h.
Callers(h) ==
  { r \in Reqs : enr[r].pc # "idle" /\ enr[r].code # <<>> /\ ReqCodeHash(r) = h }

\* C1: whatever the interleaving of the calls of ConsumeEnrollmentToken with
\* one code hash, at most one of them returns the token: two calls with the
\* same code hash never both succeed.
C1_AtMostOneSuccess ==
  \A r1, r2 \in Reqs :
    (r1 # r2 /\ enr[r1].outcome = "ok" /\ enr[r2].outcome = "ok")
      => ReqCodeHash(r1) # ReqCodeHash(r2)

\* Two calls that overlapped on one token (both began while it was unused
\* and unexpired): one has succeeded, the other was refused.
C1_Witness ==
  \E r1, r2 \in Reqs :
    /\ r1 # r2
    /\ ReqCodeHash(r1) = ReqCodeHash(r2)
    /\ enr[r1].consumable /\ enr[r2].consumable
    /\ enr[r1].outcome = "ok"
    /\ enr[r2].outcome = "enrollment token already used"

\* C2: when two or more calls of ConsumeEnrollmentToken are made on one
\* token that exists, is unused and is unexpired when each of them begins
\* (and is neither deleted nor expired meanwhile), then once they have all
\* returned exactly one has succeeded, and each of the others has returned
\* the already-used error or the not-found outcome.
C2_ExactlyOneSuccess ==
  \A t \in tokens :
    LET cs == Callers(t.code_hash)
    IN (/\ now <= t.expires_at
        /\ Cardinality(cs) >= 2
        /\ \A r \in cs : enr[r].consumable /\ Returned(r))
       => /\ Cardinality({ r \in cs : enr[r].outcome = "ok" }) = 1
          /\ \A r \in cs :
               enr[r].outcome \in {"ok", "enrollment token already used", "notfound"}

\* Every caller of one token began while it could be consumed, all have
\* returned, and a loser holds the already-used error.
C2_Witness ==
  \E t \in tokens :
    LET cs == Callers(t.code_hash)
    IN /\ now <= t.expires_at
       /\ Cardinality(cs) >= 2
       /\ \A r \in cs : enr[r].consumable /\ Returned(r)
       /\ \E r \in cs : enr[r].outcome = "enrollment token already used"
       /\ t.used_at # NullTime

\* C5: a call of ConsumeEnrollmentToken that finds used_at set fails with
\* the already-used error and leaves the tokens as they are; handleEnroll
\* answers 403 "enrollment token already used", stores no agent record and
\* returns no credential.
C5_UsedTokenRefused ==
  [][ \A r \in Reqs :
        (/\ enr[r].pc = "begin"
         /\ enr'[r].pc # "begin"
         /\ \E t \in tokens : t.code_hash = ReqCodeHash(r) /\ t.used_at # NullTime)
        => /\ enr'[r].outcome = "enrollment token already used"
           /\ enr'[r].pc = "done"
           /\ enr'[r].resp.status = 403
           /\ enr'[r].resp.error = "enrollment token already used"
           /\ enr'[r].resp.credential = <<>>
           /\ enr'[r].resp.agent_id = <<>>
           /\ tokens' = tokens
           /\ agentsTbl' = agentsTbl ]_vars

\* A request has been answered 403 "enrollment token already used" and the
\* token of its code is there, used.
C5_Witness ==
  \E r \in Reqs :
    /\ enr[r].pc = "done"
    /\ enr[r].resp.status = 403
    /\ enr[r].resp.error = "enrollment token already used"
    /\ \E t \in tokens : t.code_hash = ReqCodeHash(r) /\ t.used_at # NullTime

\* C6: a call of ConsumeEnrollmentToken that finds an unused token whose
\* expires_at is before now fails with the expired error and leaves the
\* token unused; handleEnroll answers 403 "enrollment token expired", stores
\* no agent record and returns no credential.
C6_ExpiredTokenRefused ==
  [][ \A r \in Reqs :
        (/\ enr[r].pc = "begin"
         /\ enr'[r].pc # "begin"
         /\ \E t \in tokens : /\ t.code_hash = ReqCodeHash(r)
                              /\ t.used_at = NullTime
                              /\ t.expires_at < now)
        => /\ enr'[r].outcome = "enrollment token expired"
           /\ enr'[r].pc = "done"
           /\ enr'[r].resp.status = 403
           /\ enr'[r].resp.error = "enrollment token expired"
           /\ enr'[r].resp.credential = <<>>
           /\ enr'[r].resp.agent_id = <<>>
           /\ tokens' = tokens
           /\ agentsTbl' = agentsTbl ]_vars

\* A request has been answered 403 "enrollment token expired" and the token
\* of its code is there, expired and unused.
C6_Witness ==
  \E r \in Reqs :
    /\ enr[r].pc = "done"
    /\ enr[r].resp.status = 403
    /\ enr[r].resp.error = "enrollment token expired"
    /\ \E t \in tokens : /\ t.code_hash = ReqCodeHash(r)
                         /\ t.used_at = NullTime
                         /\ t.expires_at < now

\* C7: after a POST /api/enroll answered 200, the token of the code has
\* used_at set and used_by equal to the agent_id of the response, and the
\* store holds an agent record with that id whose credential_hash is the
\* SHA-256 of the credential of the response.
C7_EnrolledAgentRecorded ==
  \A r \in Reqs :
    (enr[r].pc = "done" /\ enr[r].resp.status = 200)
      => /\ \A t \in tokens :
              t.code_hash = HashEnrollmentCode(enr[r].code)
                => t.used_at # NullTime /\ t.used_by = enr[r].resp.agent_id
         /\ \E a \in agentsTbl :
              /\ a.id = enr[r].resp.agent_id
              /\ a.credential_hash = hashCode(enr[r].resp.credential)

\* A request has been answered 200 with a credential, and the token it
\* consumed is still in the store.
C7_Witness ==
  \E r \in Reqs :
    /\ enr[r].pc = "done"
    /\ enr[r].resp.status = 200
    /\ enr[r].resp.credential # <<>>
    /\ \E t \in tokens : /\ t.code_hash = HashEnrollmentCode(enr[r].code)
                         /\ t.used_by = enr[r].resp.agent_id

(***************************************************************************)
(* Sessions: the claims                                                    *)
(***************************************************************************)

\* Connection c has an entry in the live-agents map m.
InMap(m, c) == \E e \in m : e.conn = c

\* The frame is a text envelope of type register whose credential passes
\* VerifyCredential and hashes to the credential_hash of a record of tbl.
Admissible(frame, tbl) ==
  /\ ~ReadFrame(frame.wire).err
  /\ ReadFrame(frame.wire).opcode = OpText
  /\ frame.doc.json /\ frame.doc.type = "register" /\ frame.doc.payloadOk
  /\ VerifyCredential(Platform0, frame.doc.arg).err = ""
  /\ \E a \in tbl : a.credential_hash = hashCode(frame.doc.arg)

\* The i-th frame written to viewer connection v is a binary frame.
IsBinary(v, i) == ReadFrame(recv[v][i].wire).opcode = OpBinary

\* C3: a /ws/agent connection enters the live-agents map only if its first
\* frame is a text envelope of type register whose credential passes
\* VerifyCredential and whose SHA-256 is the credential_hash of an agent
\* record in the store when the handler looks it up; for any other first
\* frame the socket is closed and the live-agents map is unchanged.
C3_OnlyEnrolledRegister ==
  [][ \A c \in AConns :
        /\ (ac[c].pc = "idle" /\ ac'[c].pc \notin {"idle", "done"})
             => /\ agents' = agents
                /\ IF Admissible(ac'[c].first, agentsTbl)
                   THEN ac'[c].pc = "insert" /\ ~ac'[c].closed
                   ELSE ac'[c].pc = "closed" /\ ac'[c].closed /\ out'[c] = <<>>
        /\ (InMap(agents', c) /\ ~InMap(agents, c))
             => /\ ac[c].pc = "insert"
                /\ Admissible(ac[c].first, agentsTbl)
                /\ \E a \in agentsTbl : a.id = ac[c].id ]_vars

\* One connection is in the live-agents map, and one that presented a
\* credential with a good MAC and no record has been closed.
C3_Witness ==
  \E c1, c2 \in AConns :
    /\ InMap(agents, c1) /\ ac[c1].pc = "live"
    /\ ac[c2].pc = "closed" /\ ac[c2].closed /\ ~InMap(agents, c2)
    /\ ac[c2].first.doc.arg = CredX

\* C4: the live-agents map holds at most one entry for an agent id, and
\* once a second connection has registered with an id that had a live
\* entry and has received registered, the entry is the second connection's
\* and the server has closed the prior connection.
C4_PriorConnectionClosed ==
  /\ \A e1, e2 \in agents : e1.id = e2.id => e1 = e2
  /\ \A c \in AConns :
       (/\ ac[c].evictedBy # NoConn
        /\ out[ac[c].evictedBy] # <<>>)
         => ac[c].closed

\* C8: a /ws/viewer request with no token, or with a token whose hash is
\* that of no stored API key, is answered 401 and changes nothing else: no
\* upgrade, no entry in the viewers map, no frame written to an agent.
C8_ViewerNeedsKey ==
  [][ \A v \in Viewers :
        (/\ vw[v].pc = "idle"
         /\ vw'[v].pc # "idle"
         /\ \/ vw'[v].token = <<>>
            \/ ~\E k \in apiKeys : k.key_hash = hashCode(vw'[v].token))
        => /\ vw'[v].pc = "done"
           /\ vw'[v].status = 401
           /\ vw'[v].agent = NoConn
           /\ ~vw'[v].closed /\ ~vw'[v].started
           /\ viewers' = viewers
           /\ out' = out
           /\ recv' = recv
           /\ agents' = agents
           /\ apiKeys' = apiKeys
           /\ agentsTbl' = agentsTbl ]_vars

\* A request with a token that is no API key has been answered 401 while an
\* agent is live.
C8_Witness ==
  \E v \in Viewers :
    /\ vw[v].pc = "done"
    /\ vw[v].status = 401
    /\ vw[v].token # <<>>
    /\ \E c \in AConns : ac[c].pc = "live" /\ InMap(agents, c)

\* The binary frames written to viewer connection v that were read from
\* agent connection c, in the order of their writing.
RelayedFrom(v, c) ==
  LET is == { i \in 1..Len(recv[v]) : IsBinary(v, i) /\ recv[v][i].src = c }
      RECURSIVE upTo(_)
      upTo(n) == IF n = 0 THEN <<>>
                 ELSE IF n \in is THEN Append(upTo(n - 1), recv[v][n])
                 ELSE upTo(n - 1)
  IN upTo(Len(recv[v]))

C10_StartBeforeRelay ==
  \A v \in Viewers :
    (\E i \in 1..Len(recv[v]) : IsBinary(v, i)) => vw[v].started

(***************************************************************************)
(* The viewer's input                                                      *)
(***************************************************************************)

\* C11: of the frames read from a viewer, a text frame whose envelope has
\* type input or switch_display is written to the connection of the
\* viewer's agent as one text frame with the same payload bytes, under the
\* agent's mutex; for every other envelope type, for a frame that is not
\* text and for a text that does not parse, nothing is written to any
\* agent.  The frame that ends the loop is not forwarded either: the only
\* write that follows it is stop_capture.
C11_ForwardedVerbatim ==
  [][ /\ \A v \in Viewers, m \in ViewerMessages :
           viewerInputLoop_Read(v, ClientFrame(m.opcode, m.payload, m.doc)) =>
             IF /\ m.opcode = OpText
                /\ m.doc.json
                /\ m.doc.type \in {"input", "switch_display"}
                /\ ~ac[vw[v].agent].closed
             THEN out' = [out EXCEPT ![vw[v].agent] =
                            Append(@, [wire |-> WriteServerFrame(OpText, m.payload),
                                       doc |-> m.doc, mu |-> TRUE])]
             ELSE out' = out
      /\ \A v \in Viewers, frame \in ViewerFrames :
           handleViewer_Teardown(v, frame) =>
             \A c \in AConns :
               \/ out'[c] = out[c]
               \/ /\ c = vw[v].agent
                  /\ Len(out'[c]) = Len(out[c]) + 1
                  /\ out'[c][Len(out'[c])].doc.type = "stop_capture"
    ]_vars

\* An agent connection has been written an input message with the bytes
\* the viewer sent.
C11_Witness ==
  \E c \in AConns : \E i \in 1..Len(out[c]) :
    /\ out[c][i].doc.type = "input"
    /\ out[c][i].wire = WriteServerFrame(OpText, InputPayload)
    /\ out[c][i].mu

(***************************************************************************)
(* One viewer per agent                                                    *)
(***************************************************************************)

\* The viewer v is the one that attached last to its agent id.
LastAttached(v) ==
  /\ vw[v].seq > 0
  /\ \A w \in Viewers : vw[w].target = vw[v].target => vw[w].seq <= vw[v].seq

\* C12: s.viewers maps an agent id to at most one connection; an attach
\* makes the attaching viewer the entry of its agent id; and while the
\* viewer that attached last to an agent id is in its session, every binary
\* frame relayed for that id is written to that viewer and to no other.
C12_RelayedToSecondOnly ==
  [][ /\ \A e1, e2 \in viewers' : e1.id = e2.id => e1 = e2
      /\ \A v \in Viewers :
           handleViewer_Attach(v) => MapGet(viewers', vw[v].target) = v
      /\ \A c \in AConns :
           (agentMessageLoop_Relay(c) /\ ac[c].relay.opcode = OpBinary) =>
             \A v \in Viewers :
               (vw[v].pc \in {"start", "loop"} /\ vw[v].target = ac[c].id
                  /\ LastAttached(v)) =>
                 /\ Len(recv'[v]) = Len(recv[v]) + 1
                 /\ \A w \in Viewers \ {v} : recv'[w] = recv[w]
    ]_vars

(***************************************************************************)
(* The end of a session                                                    *)
(***************************************************************************)

C15_FailedWriteUnwinds ==
  [][ \A v \in Viewers, m \in ViewerMessages :
        ( /\ viewerInputLoop_Read(v, ClientFrame(m.opcode, m.payload, m.doc))
          /\ m.opcode = OpText
          /\ Forwardable(m.doc)
          /\ ac[vw[v].agent].closed ) =>
          /\ out' = out
          /\ vw'[v].closed
          /\ MapGet(viewers', vw[v].target) # v
    ]_vars

(***************************************************************************)
(* Credentials, codes and keys                                             *)
(***************************************************************************)

\* C16 as stated: for every agent id string, the empty one included,
\* VerifyCredential of the credential SignCredential returns succeeds and
\* returns the id.
C16_AnyString ==
  app.fn = "VerifyCredential" => (app.err = "" /\ app.out = app.arg)

\* C16: for every agent id string that is not empty, VerifyCredential of the
\* credential SignCredential returns succeeds and returns the id; for the
\* empty id it fails with "malformed credential".
C16_SignThenVerify ==
  app.fn = "VerifyCredential" =>
    IF app.arg = <<>>
    THEN app.err = "malformed credential" /\ app.out = <<>>
    ELSE app.err = "" /\ app.out = app.arg

\* The credential of an id of full length that holds a dot has been
\* verified.
C16_Witness ==
  /\ app.fn = "VerifyCredential"
  /\ Len(app.arg) = MaxIdLen
  /\ \E i \in 1..Len(app.arg) : app.arg[i] = "."
  /\ app.err = ""
  /\ app.out = app.arg

\* C17: a registration that presents an issued credential with one bit
\* flipped fails VerifyCredential and is not admitted to the live-agents map.
C17_FlippedFailsVerification ==
  app.fn = "register" => (app.err # "" /\ ~app.next /\ app.out = <<>>)

\* C18: HashEnrollmentCode gives the hash of a raw code for every way of
\* typing it: in either case, with a dash or a blank added at the start, at
\* the end or between two characters.
C18_VariantsHashAlike ==
  app.fn = "HashEnrollmentCode" => app.out = HashEnrollmentCode(app.arg)

\* C19: the handler wrapped by AuthMiddleware.Wrap is called exactly for the
\* requests whose key hashes to a stored API key, the key being the rest of
\* an Authorization header that starts with "Bearer " and else the token
\* query parameter; every other request is answered 401.
C19_WrapNeedsKey ==
  app.fn = "Wrap" =>
    LET key == IF Len(app.arg) >= 7 /\ SubSeq(app.arg, 1, 7) = Bearer
               THEN SubSeq(app.arg, 8, Len(app.arg))
               ELSE app.variant
        stored == \E k \in apiKeys : k.key_hash = HashAPIKey(key)
    IN /\ app.next <=> stored
       /\ ~app.next => app.status = 401
       /\ app.next => app.status # 401

\* A request without an Authorization header and with the admin key as its
\* token parameter has reached the wrapped handler.
C19_Witness ==
  /\ app.fn = "Wrap"
  /\ app.arg = <<>>
  /\ app.variant = AdminKey
  /\ app.next

(***************************************************************************)
(* A failed CreateAgent                                                    *)
(***************************************************************************)

\* C20: a POST /api/enroll whose CreateAgent failed after its
\* ConsumeEnrollmentToken succeeded answers 500 without agent id or
\* credential; the token stays consumed (used_at set, used_by the id of the
\* request), no agent record of that id exists, and every later call of
\* ConsumeEnrollmentToken with the same code finds the token used and is
\* answered 403 "enrollment token already used".
C20_FailedCreateSpendsToken ==
  /\ [](\A r \in Reqs :
          enr[r].resp.status = 500 =>
            /\ enr[r].outcome = "ok"
            /\ enr[r].resp.credential = <<>>
            /\ enr[r].resp.agent_id = <<>>
            /\ \A t \in TokenRows(ReqCodeHash(r)) :
                 t.used_at # NullTime /\ t.used_by = ReqAgentID(r)
            /\ ~\E a \in agentsTbl : a.id = ReqAgentID(r))
  /\ [][ \A r, q \in Reqs :
           ( /\ enr[r].resp.status = 500
             /\ ConsumeEnrollmentToken_Select(q)
             /\ ReqCodeHash(q) = ReqCodeHash(r)
             /\ TokenRows(ReqCodeHash(r)) # {} ) =>
             /\ enr'[q].outcome = "enrollment token already used"
             /\ enr'[q].resp.status = 403
             /\ enr'[q].resp.credential = <<>>
             /\ tokens' = tokens /\ agentsTbl' = agentsTbl
      ]_vars

\* One request was answered 500 after it consumed the token, and a retry
\* with the same code was refused as already used.
C20_Witness ==
  \E r, q \in Reqs :
    /\ r # q
    /\ enr[r].resp.status = 500
    /\ enr[q].code = enr[r].code
    /\ enr[q].resp.status = 403
    /\ enr[q].outcome = "enrollment token already used"
    /\ \E t \in TokenRows(ReqCodeHash(r)) : t.used_at # NullTime

(***************************************************************************)
(* Rejected registrations and failed upgrades                              *)
(***************************************************************************)

\* The reasons for which handleAgent rejects a registration.
RejectionCauses ==
  { "frame", "type", "payload", "no credential",
    "unsupported credential version", "malformed credential",
    "malformed credential MAC", "invalid credential", "not enrolled" }

\* The registration of connection c has been rejected.
Rejected(c) == ac[c].pc = "closed" /\ ac[c].id = <<>>

\* C21: a rejected registration looks the same to the peer whatever its
\* cause (a first message that is no register, a missing credential, an
\* unsupported version, a malformed credential, an invalid MAC, no agent
\* record): after the 101 of the upgrade the server has written no frame on
\* the connection and has closed it, and the agents map holds no entry for it.
C21_SilentRejection ==
  \A c \in AConns :
    Rejected(c) =>
      /\ RegistrationCheck(ac[c].first, agentsTbl).why \in RejectionCauses
      /\ out[c] = <<>>
      /\ ac[c].closed
      /\ ac[c].status = 0
      /\ ~InMap(agents, c)

\* Two registrations have been rejected, one for an invalid MAC and one for
\* a credential of no agent record.
C21_Witness ==
  \E c, q \in AConns :
    /\ Rejected(c) /\ Rejected(q)
    /\ RegistrationCheck(ac[c].first, agentsTbl).why = "invalid credential"
    /\ RegistrationCheck(ac[q].first, agentsTbl).why = "not enrolled"
    /\ out[c] = out[q] /\ ac[c].closed /\ ac[q].closed

\* C22: on /ws/agent and on /ws/viewer a request that fails the upgrade (no
\* "Upgrade: websocket" header, or an empty Sec-WebSocket-Key) is answered
\* 400 and changes neither the agents map nor the viewers map.  (A viewer
\* request that has got as far as the upgrade and is done without a session
\* is one whose upgrade failed: it alone keeps its agent parameter.)
C22_FailedUpgradeIs400 ==
  /\ [](\A c \in AConns : ac[c].pc = "done" => ac[c].status = 400)
  /\ [](\A v \in Viewers :
          (vw[v].pc = "done" /\ vw[v].target # <<>>) => vw[v].status = 400)
  /\ [][ (\/ \E c \in AConns : ac[c].pc = "idle" /\ ac'[c].pc = "done"
          \/ \E v \in Viewers : vw[v].pc = "idle" /\ vw'[v].pc = "done")
          => (agents' = agents /\ viewers' = viewers) ]_vars

(***************************************************************************)
(* The agent process                                                       *)
(***************************************************************************)

\* C23: the agent never stops retrying: whenever run has returned (main is
\* about to sleep), main sleeps the reconnect delay and dials again.
C23_AlwaysDialsAgain == (rt.main = "sleep") ~> (rt.main = "dial")

\* The capture goroutines that have not returned.
RunningTasks == { t \in 1..Len(rt.tasks) : rt.tasks[t].pc # "done" }

\* C24: at most one capture task runs at any time, whatever the sequence of
\* start_capture and stop_capture messages.
C24_OneCaptureTask == Cardinality(RunningTasks) <= 1

\* C26: every frame the capture task has sent is a binary frame whose first
\* byte is the channel byte 0x01, followed by the bytes of the captured JPEG.
C26_CaptureSendsBinary ==
  \A i \in 1..Len(rt.sent) :
    rt.sent[i].by = "capture" =>
      LET f == ReadFrame(rt.sent[i].wire)
      IN /\ ~f.err
         /\ f.opcode = OpBinary
         /\ Len(f.payload) >= 1
         /\ f.payload[1] = BinScreen
         /\ SubSeq(f.payload, 2, Len(f.payload)) \in Jpegs

(***************************************************************************)
(* Locks                                                                   *)
(***************************************************************************)

\* C25: a viewer whose socket write blocks delays the relay of its own
\* session only: while a relay's write to a viewer is pending, a new agent
\* registration can enter the agents map, and another viewer can attach and
\* can detach.
C25_BlockedWriteDelaysOwnSession ==
  \A c \in AConns :
    (ac[c].pc = "relay" /\ ac[c].vc # NoConn) =>
      /\ \A q \in AConns :
           ac[q].pc = "insert" => ENABLED handleAgent_Insert(q)
      /\ \A v \in Viewers \ {ac[c].vc} :
           /\ vw[v].pc = "attach" => ENABLED handleViewer_Attach(v)
           /\ vw[v].pc = "loop" => ENABLED handleViewer_Teardown(v, ReadError)

\* C28: every frame the server has written to an agent's connection (the
\* registered reply, a pong, start_capture, stop_capture, a forwarded input
\* or switch_display) was written while the agent's mutex was held.
C28_WritesUnderAgentMutex ==
  \A c \in AConns : \A i \in 1..Len(out[c]) : out[c][i].mu

\* C29: Server.mu is never held while a frame is written to a viewer's
\* socket: no session holds the read lock at a step that writes to a viewer.
C29_NoWriteUnderServerLock ==
  [][ (\E v \in Viewers : recv'[v] # recv[v]) => muReaders = {} ]_vars

\* C30: a registered connection that no later registration has replaced has
\* its entry in the agents map: the end of an earlier session of the same
\* agent id does not remove it.
C30_LiveAgentStaysMapped ==
  \A c \in AConns :
    (ac[c].pc \in {"live", "relay"} /\ ac[c].evictedBy = NoConn)
      => MapGet(agents, ac[c].id) = c

(***************************************************************************)
(* The platform identity across restarts                                   *)
(***************************************************************************)

\* C27: across the restarts of the server on one data directory every
\* successful LoadOrCreatePlatform yields the same fingerprint and the same
\* credential key, platform.key is written only when it is absent, and a
\* credential signed by an earlier start verifies in the running server.
C27_SameIdentityAcrossRestarts ==
  /\ [](\A p, q \in host.yielded :
          Fingerprint(p) = Fingerprint(q) /\ p.credKey = q.credKey)
  /\ [](host.up =>
          \A i \in host.issued :
            /\ VerifyCredential(newPlatform(host.seed), i.credential).err = ""
            /\ VerifyCredential(newPlatform(host.seed), i.credential).agentID
                 = i.agentID)
  /\ [][host'.file # host.file => ~fileExists(host.file)]_vars

\* The server runs after its third start and holds a credential that its
\* first start signed.
C27_Witness ==
  /\ host.up
  /\ host.starts >= 3
  /\ \E i \in host.issued :
       /\ i.run = 1
       /\ VerifyCredential(newPlatform(host.seed), i.credential).err = ""


(***************************************************************************)
(* Two viewers of one agent                                                *)
(***************************************************************************)

\* The viewer v has been displaced: s.viewers maps its agent id to another
\* viewer's connection.
Displaced(v) == MapGet(viewers, vw[v].target) \notin {NoConn, v}

\* The session of viewer v ends in this step.
ViewerEnds(v) == vw[v].pc = "loop" /\ vw'[v].pc = "closed"

\* C31: when a viewer that a newer viewer of the same agent has displaced
\* ends its session, the entry of the newer viewer stays in s.viewers: the
\* teardown removes the entry only if it is the viewer's own connection.
C31_NewerViewerStaysMapped ==
  [][ \A v \in Viewers :
        (ViewerEnds(v) /\ MapGet(viewers, vw[v].target) # v)
          => viewers' = viewers ]_vars

\* C32: stop_capture is written to an agent only when no viewer remains
\* attached to it: the end of a displaced viewer's session, while another
\* viewer is mapped to the agent, writes nothing to the agent.
C32_StopOnlyWhenNoViewer ==
  [][ \A v \in Viewers :
        (ViewerEnds(v) /\ Displaced(v)) => out' = out ]_vars

\* C33: once a second viewer of the same agent has displaced a viewer, no
\* input and no switch_display read from the displaced viewer is written to
\* the agent.
C33_DisplacedViewerMuted ==
  [][ \A v \in Viewers, frame \in ViewerFrames :
        (viewerInputLoop_Read(v, frame) /\ Displaced(v)) => out' = out ]_vars

(***************************************************************************)
(* The registered reply                                                    *)
(***************************************************************************)

\* C34: the first frame the server writes on an agent connection is the
\* registered reply: no start_capture, stop_capture or forwarded message
\* comes before it.
C34_RegisteredIsFirst ==
  \A c \in AConns : out[c] # <<>> => out[c][1].doc.type = "registered"

(***************************************************************************)
(* No frame crosses between agent ids                                      *)
(***************************************************************************)

\* C35: the maps pair a connection with its own agent id; every frame
\* written to a viewer was read from a connection registered with the id
\* the viewer asked for; and every frame a viewer's handler writes
\* (start_capture, a forwarded message, stop_capture) goes to a connection
\* registered with that id.
C35_NoFrameCrosses ==
  /\ [](/\ \A e \in agents : ac[e.conn].id = e.id
        /\ \A e \in viewers : vw[e.conn].target = e.id
        /\ \A v \in Viewers : \A i \in 1..Len(recv[v]) :
             /\ ac[recv[v][i].src].id = vw[v].target
             /\ vw[v].target # <<>>)
  /\ [][ /\ \A c \in AConns :
              agentMessageLoop_Relay(c) =>
                \A v \in Viewers :
                  recv'[v] # recv[v] => vw[v].target = ac[c].id
         /\ \A v \in Viewers, c \in AConns :
              (vw'[v] # vw[v] /\ out'[c] # out[c]) =>
                 /\ ac[c].id = vw[v].target
                 /\ ac[c].pc \in {"reply", "live", "relay"}
       ]_vars

\* Connections registered as AgentA and as AgentB are live; a viewer of
\* AgentA has been written a frame read from the first, and the first has
\* been written start_capture; the second has been written registered alone.
C35_Witness ==
  \E v \in Viewers, c, q \in AConns :
    /\ ac[c].id = AgentA /\ ac[c].pc = "live"
    /\ ac[q].id = AgentB /\ ac[q].pc = "live"
    /\ vw[v].target = AgentA
    /\ recv[v] # <<>> /\ recv[v][1].src = c
    /\ \E i \in 1..Len(out[c]) : out[c][i].doc.type = "start_capture"
    /\ Len(out[q]) = 1

(***************************************************************************)
(* Agent records and their tokens                                          *)
(***************************************************************************)

\* The requests whose ConsumeEnrollmentToken returned the token.
Consumers == { r \in Reqs : enr[r].outcome = "ok" }

\* C36: an agent record is created only by a request whose
\* ConsumeEnrollmentToken has succeeded: the consume marked an unused token
\* of the request's code hash with used_by equal to the request's agent id,
\* the record created has that id, there are never more records than
\* successful consumes nor two records for one token, and a request whose
\* consume failed or found no token is answered an error and stores nothing.
C36_RecordNeedsConsume ==
  /\ [][ \A r \in Reqs :
           (enr[r].outcome # "ok" /\ enr'[r].outcome = "ok") =>
             \E t \in tokens :
               /\ t.code_hash = ReqCodeHash(r)
               /\ t.used_at = NullTime
               /\ [t EXCEPT !.used_at = enr[r].nowStr,
                            !.used_by = EnrollAgentID(enr[r].code)] \in tokens'
       ]_vars
  /\ [][ \A rec \in agentsTbl' \ agentsTbl :
           \E r \in Consumers :
             /\ enr[r].pc = "consumed" /\ enr'[r].pc = "done"
             /\ rec.id = EnrollAgentID(enr[r].code)
             /\ agentsTbl' = agentsTbl \cup {rec}
       ]_vars
  /\ [](/\ Cardinality(agentsTbl) <= Cardinality(Consumers)
        /\ \A t \in tokens :
             Cardinality({ a \in agentsTbl : a.id = t.used_by }) <= 1
        /\ \A a \in agentsTbl :
             \/ \E t \in tokens : t.used_at # NullTime /\ t.used_by = a.id
             \/ \E code \in minted : TokenRows(hashCode(code)) = {}
        /\ \A r \in Reqs :
             (enr[r].pc = "done" /\ r \notin Consumers) =>
               /\ enr[r].resp.status \in {400, 403}
               /\ enr[r].resp.credential = <<>>)

\* One request has consumed a token and its record is stored, under the id
\* the token's used_by holds; another request, refused, has stored nothing.
C36_Witness ==
  \E r1, r2 \in Reqs :
    /\ enr[r1].pc = "done" /\ enr[r1].resp.status = 200
    /\ \E a \in agentsTbl, t \in tokens :
         /\ a.id = EnrollAgentID(enr[r1].code)
         /\ t.used_by = a.id
    /\ enr[r2].pc = "done" /\ enr[r2].resp.status = 403
    /\ Cardinality(agentsTbl) = 1

(***************************************************************************)
(* A deleted agent record                                                  *)
(***************************************************************************)

\* The first frame of connection c in the next state is a registration that
\* presents the credential issued to an agent whose record is not in the
\* store.
PresentsDeleted(c) ==
  /\ ac[c].pc = "idle" /\ ac'[c].pc \notin {"idle", "done"}
  /\ ~FrameTable[ac'[c].first].err
  /\ FrameTable[ac'[c].first].opcode = OpText
  /\ ac'[c].first.doc.json /\ ac'[c].first.doc.type = "register"
  /\ ac'[c].first.doc.payloadOk
  /\ ac'[c].first.doc.arg \in IssuedCredentials
  /\ ~\E a \in agentsTbl :
        a.id = VerifyCredential(Platform0, ac'[c].first.doc.arg).agentID

\* C37: once DeleteAgent has removed an agent's record, a registration
\* that presents the agent's credential is rejected, although the MAC of the
\* credential verifies: the connection is closed with no frame written, the
\* agents map is left as it is, and the connection never enters it.
C37_DeletedAgentRejected ==
  /\ [][ \A c \in AConns :
           PresentsDeleted(c) =>
             /\ VerifyCredential(Platform0, ac'[c].first.doc.arg).err = ""
             /\ ac'[c].pc = "closed" /\ ac'[c].closed
             /\ ac'[c].id = <<>>
             /\ out'[c] = <<>>
             /\ agents' = agents ]_vars
  /\ [](\A c \in AConns : Rejected(c) => ~InMap(agents, c))

\* A connection registered with CredA and got its reply; the record of
\* AgentA was then deleted, and a later connection that presented CredA,
\* whose MAC verifies, has been rejected.
C37_Witness ==
  \E c, q \in AConns :
    /\ c # q
    /\ ac[q].id = AgentA /\ out[q] # <<>>
    /\ ~\E a \in agentsTbl : a.id = AgentA
    /\ Rejected(c) /\ ac[c].first.doc.arg = CredA
    /\ VerifyCredential(Platform0, CredA).err = ""
    /\ ~InMap(agents, c)

(***************************************************************************)
(* The capture task and the connection; the current display                *)
(***************************************************************************)

\* C38: a capture task does not outlive the connection it was started on:
\* on a new connection, before run has read the registered reply (and so
\* before any start_capture can have been received on it), the agent has
\* sent no screen frame.
C38_NoScreenBeforeStart ==
  rt.main \in {"register", "confirm"} =>
    \A i \in 1..Len(rt.sent) : rt.sent[i].by # "capture"

\* The frame is a switch_display that run dispatches.
IsSwitch(frame) ==
  /\ ~ReadFrame(frame.wire).err
  /\ ReadFrame(frame.wire).opcode = OpText
  /\ frame.doc.json /\ frame.doc.type = "switch_display"

\* C40: handleSwitchDisplay makes the requested display the current one and
\* sends display_switched only when the request parses and its display is
\* within 1..DisplayCount; for any other request the agent is left as it is
\* and nothing is sent.  The current display changes in no other way than
\* by a registration (which sets it to 1), so from the first registration on
\* it stays within 1..DisplayCount.
C40_DisplayWithinBounds ==
  /\ [][ \A frame \in AgentInbox :
           (IsSwitch(frame) /\ run_Dispatch(frame)) =>
             IF frame.doc.payloadOk /\ frame.doc.arg[1] \in 1..DisplayCount
             THEN /\ rt'.currentDisplay = frame.doc.arg[1]
                  /\ rt'.sent = Append(rt.sent,
                                       sendMessage("display_switched",
                                                   <<frame.doc.arg[1]>>, "run"))
             ELSE rt' = rt ]_vars
  /\ [][ /\ rt'.currentDisplay # rt.currentDisplay =>
              \/ rt.main = "register" /\ rt'.currentDisplay = 1
              \/ \E frame \in AgentInbox : IsSwitch(frame) /\ run_Dispatch(frame)
         /\ rt.currentDisplay \in 1..DisplayCount =>
              rt'.currentDisplay \in 1..DisplayCount ]_vars
  /\ [](/\ rt.main \in {"confirm", "loop"} => rt.currentDisplay \in 1..DisplayCount
        /\ rt.currentDisplay \in 0..DisplayCount
        /\ \A i \in 1..Len(rt.sent) :
             rt.sent[i].doc.type = "display_switched" =>
               rt.sent[i].wire
                 = WriteClientFrame(OpText, <<rt.currentDisplay>>, MaskKey)
               \/ \E j \in (i + 1)..Len(rt.sent) :
                    rt.sent[j].doc.type = "display_switched")

\* The agent is in its loop after a switch_display for display 2: display 2
\* is current and a display_switched that names it has been sent.
C40_Witness ==
  /\ rt.main = "loop"
  /\ rt.currentDisplay = 2
  /\ \E i \in 1..Len(rt.sent) :
       /\ rt.sent[i].doc.type = "display_switched"
       /\ ReadFrame(rt.sent[i].wire).payload = <<2>>

(***************************************************************************)
(* The frame codec                                                         *)
(***************************************************************************)

\* C39: ReadFrame on the bytes WriteServerFrame or WriteClientFrame wrote
\* returns the opcode and the payload that were written, without an error;
\* the bytes written start with FIN and the opcode, carry the length in the
\* 7-bit form below 126 bytes, in the 16-bit form from 126 to 65535 and in
\* the 64-bit form above, and have the mask bit (and a masking key) when the
\* client writer wrote them and not when the server writer did.
C39_FrameRoundTrip ==
  /\ app.fn = "ReadFrame" =>
       /\ app.err = ""
       /\ app.status = app.variant[2]
       /\ app.out = app.arg
  /\ app.fn \in {"WriteServerFrame", "WriteClientFrame"} =>
       LET w == app.out
           n == Len(app.arg)
           client == app.fn = "WriteClientFrame"
           keyLen == IF client THEN 4 ELSE 0
           len7 == w[2] % 128
       IN /\ w[1] = 128 + app.status
          /\ (w[2] >= 128) = client
          /\ IF n < 126
             THEN len7 = n /\ Len(w) = 2 + keyLen + n
             ELSE IF n <= 65535
             THEN /\ len7 = 126
                  /\ 256 * w[3] + w[4] = n
                  /\ Len(w) = 4 + keyLen + n
             ELSE /\ len7 = 127
                  /\ FromBigEndian(SubSeq(w, 3, 10)) = n
                  /\ Len(w) = 10 + keyLen + n
          /\ client => SubSeq(w, Len(w) - n - 3, Len(w) - n) = app.variant

\* ReadFrame has returned the 126 bytes and the opcode of a binary frame
\* that the client writer had written in the 16-bit form and masked with a
\* key that is not zero.
C39_Witness ==
  /\ app.fn = "ReadFrame"
  /\ SubSeq(app.variant, 1, 2) = <<"WriteClientFrame", OpBinary>>
  /\ SubSeq(app.variant, 3, 6) = MaskKey
  /\ Len(app.out) = 126
  /\ app.out = app.arg
  /\ app.out[1] = 131
  /\ app.status = OpBinary

====
